---------------------------- MODULE Spec2Model ----------------------------
(***************************************************************************)
(* A model of ThisIsMusic.ai: the command-line dispatcher of main.py, the  *)
(* Gradio handlers of gui.py and the component functions both share.       *)
(*                                                                         *)
(* A Python str is a sequence of one-character strings, so that strip(),   *)
(* lower(), startswith() and the `in` test are computed on the characters. *)
(* The external services (yt-dlp, the OpenAI API, requests, FPDF) are not  *)
(* modelled: every call of one takes its outcome (a value, or the message  *)
(* of the exception it raises) as an argument, and the actions draw the    *)
(* outcomes from small sets.  The working directory is assumed writable    *)
(* (os.makedirs succeeds) and os.getcwd() is "/app".                       *)
(***************************************************************************)
EXTENDS Integers, Sequences, FiniteSets, TLC

(***************************************************************************)
(* Python str operations                                                   *)
(***************************************************************************)
UpperCase == <<"A","B","C","D","E","F","G","H","I","J","K","L","M",
               "N","O","P","Q","R","S","T","U","V","W","X","Y","Z">>
LowerCase == <<"a","b","c","d","e","f","g","h","i","j","k","l","m",
               "n","o","p","q","r","s","t","u","v","w","x","y","z">>
Digits == <<"0","1","2","3","4","5","6","7","8","9">>

Min(S) == CHOOSE x \in S : \A y \in S : x <= y
Max(S) == CHOOSE x \in S : \A y \in S : x >= y

\* str.lower(), one character
LowerChar(c) ==
  IF \E i \in 1..26 : UpperCase[i] = c
    THEN LowerCase[CHOOSE i \in 1..26 : UpperCase[i] = c]
    ELSE c

\* str.lower()
lower(s) == [i \in 1..Len(s) |-> LowerChar(s[i])]

\* the characters str.strip() removes
IsSpace(c) == c \in {" ", "\t", "\n", "\r"}

\* the first index from i on, and the last index up to i, of a character
\* strip() keeps
RECURSIVE FirstKept(_, _)
FirstKept(s, i) == IF i > Len(s) \/ ~IsSpace(s[i]) THEN i ELSE FirstKept(s, i + 1)

RECURSIVE LastKept(_, _)
LastKept(s, i) == IF i < 1 \/ ~IsSpace(s[i]) THEN i ELSE LastKept(s, i - 1)

\* str.strip()
strip(s) ==
  LET first == FirstKept(s, 1)
  IN  IF first > Len(s) THEN <<>> ELSE SubSeq(s, first, LastKept(s, Len(s)))

\* str.startswith(p)
startswith(s, p) == Len(p) <= Len(s) /\ SubSeq(s, 1, Len(p)) = p

\* p in s
contains(s, p) == \E i \in 1..(Len(s) - Len(p) + 1) : SubSeq(s, i, i + Len(p) - 1) = p

\* s[:n]
prefix(s, n) == SubSeq(s, 1, IF Len(s) < n THEN Len(s) ELSE n)

\* c * n
Rep(c, n) == [i \in 1..n |-> c]

\* os.path.splitext: the extension starts at the last dot of the last path
\* component, a dot that starts the component not counting
splitext(p) ==
  LET slashes == {i \in 1..Len(p) : p[i] = "/"}
      start   == IF slashes = {} THEN 1 ELSE Max(slashes) + 1
      dots    == {i \in (start + 1)..Len(p) : p[i] = "."}
  IN  IF dots = {} THEN [base |-> p, ext |-> <<>>]
      ELSE [base |-> SubSeq(p, 1, Max(dots) - 1), ext |-> SubSeq(p, Max(dots), Len(p))]

(***************************************************************************)
(* String literals of the source                                           *)
(***************************************************************************)
\* Keywords, command prefixes and other short literals the code compares against.
Kw ==
  [ exit |-> <<"e","x","i","t">>,
    quit |-> <<"q","u","i","t">>,
    transcribe |-> <<"/","t","r","a","n","s","c","r","i","b","e">>,
    lyrics |-> <<"/","l","y","r","i","c","s">>,
    article |-> <<"/","a","r","t","i","c","l","e">>,
    summarize |-> <<"/","s","u","m","m","a","r","i","z","e">>,
    getaudio |-> <<"/","g","e","t","a","u","d","i","o">>,
    pressrelease |-> <<"/","p","r","e","s","s","r","e","l","e","a","s","e">>,
    social |-> <<"/","s","o","c","i","a","l">>,
    epk |-> <<"/","e","p","k">>,
    chat |-> <<"/","c","h","a","t">>,
    one |-> <<"1">>,
    two |-> <<"2">>,
    y |-> <<"y">>,
    yes |-> <<"y","e","s">>,
    mp3 |-> <<"m","p","3">>,
    wav |-> <<"w","a","v">>,
    dot |-> <<".">>,
    underscore |-> <<"_">>,
    Error |-> <<"E","r","r","o","r">>,
    task_lyrics |-> <<"l","y","r","i","c","s">>,
    task_article |-> <<"a","r","t","i","c","l","e">>,
    task_summarize |-> <<"s","u","m","m","a","r","i","z","e">>,
    youtube_com |-> <<"y","o","u","t","u","b","e",".","c","o","m">>,
    youtu_be |-> <<"y","o","u","t","u",".","b","e">>,
    http |-> <<"h","t","t","p">>,
    jpg |-> <<".","j","p","g">>,
    img |-> <<"i","m","g","_">>,
    downloads |-> <<"/","a","p","p","/","d","o","w","n","l","o","a","d","s","/">>,
    stamp |-> <<"2","0","2","5","0","6","0","1","1","2","0","0","0">>,
    slash |-> <<"/">>,
    space |-> <<" ">>,
    newline |-> <<"\n">>,
    octet_stream |-> <<"a","p","p","l","i","c","a","t","i","o","n","/","o","c","t","e","t","-","s","t","r","e","a","m">>,
    image_png |-> <<"i","m","a","g","e","/","p","n","g">>,
    image_jpeg |-> <<"i","m","a","g","e","/","j","p","e","g">>,
    uploaded_image |-> <<"u","p","l","o","a","d","e","d","_","i","m","a","g","e">>,
    data_scheme |-> <<"d","a","t","a",":">>,
    base64_mark |-> <<";","b","a","s","e","6","4",",">> ]

\* The prefixes of the error strings the components return (and the NameError text).
Err ==
  [ transcription |-> <<"E","r","r","o","r"," ","d","u","r","i","n","g"," ","t","r","a","n","s",
        "c","r","i","p","t","i","o","n",":"," ">>,
    gpt |-> <<"E","r","r","o","r"," ","d","u","r","i","n","g"," ","G","P","T"," ","p","r","o","c",
        "e","s","s","i","n","g",":"," ">>,
    press |-> <<"E","r","r","o","r"," ","g","e","n","e","r","a","t","i","n","g"," ","p","r","e",
        "s","s"," ","r","e","l","e","a","s","e",":"," ">>,
    social |-> <<"E","r","r","o","r"," ","g","e","n","e","r","a","t","i","n","g"," ","s","o","c",
        "i","a","l"," ","m","e","d","i","a"," ","p","o","s","t",":"," ">>,
    epk |-> <<"E","r","r","o","r"," ","g","e","n","e","r","a","t","i","n","g"," ","E","P","K",":",
        " ">>,
    pdf_images |-> <<"E","r","r","o","r"," ","g","e","n","e","r","a","t","i","n","g"," ","P","D",
        "F"," ","w","i","t","h"," ","i","m","a","g","e","s",":"," ">>,
    pdf |-> <<"E","r","r","o","r"," ","g","e","n","e","r","a","t","i","n","g"," ","P","D","F",":",
        " ">>,
    epk_pdf |-> <<"E","r","r","o","r"," ","c","r","e","a","t","i","n","g"," ","E","P","K"," ","P",
        "D","F",":"," ">>,
    download |-> <<"E","r","r","o","r"," ","d","o","w","n","l","o","a","d","i","n","g"," ","a",
        "u","d","i","o",":"," ">>,
    chat |-> <<"E","r","r","o","r",":"," ">>,
    website |-> <<"E","r","r","o","r"," ","r","e","t","r","i","e","v","i","n","g"," ","t","h","e",
        " ","w","e","b","s","i","t","e",":"," ">>,
    parse |-> <<"E","r","r","o","r"," ","p","a","r","s","i","n","g"," ","w","e","b","s","i","t",
        "e"," ","c","o","n","t","e","n","t",":"," ">>,
    readfile |-> <<"E","r","r","o","r"," ","r","e","a","d","i","n","g"," ","f","i","l","e",":"," ">>,
    dltext |-> <<"E","r","r","o","r"," ","d","o","w","n","l","o","a","d","i","n","g"," ","t","e",
        "x","t",":"," ">>,
    dlimage |-> <<"E","r","r","o","r"," ","d","o","w","n","l","o","a","d","i","n","g"," ","i","m",
        "a","g","e"," ">>,
    oserror |-> <<"[","E","r","r","n","o","]">>,
    latin1 |-> <<"'","l","a","t","i","n","-","1","'"," ","c","o","d","e","c"," ","c","a","n","'","t"," ","e","n","c","o","d","e"," ","c","h","a","r","a","c","t","e","r">>,
    name_error |-> <<"n","a","m","e"," ","'","i","m","a","g","e","_","p","a","t","h","s","'"," ",
        "i","s"," ","n","o","t"," ","d","e","f","i","n","e","d">> ]

\* Messages printed by main() and returned by the GUI handlers.
Msg ==
  [ cannot_download |-> <<"T","h","i","s"," ","v","i","d","e","o"," ","c","a","n","n","o","t"," ",
        "b","e"," ","d","o","w","n","l","o","a","d","e","d",".">>,
    invalid_choice |-> <<"I","n","v","a","l","i","d"," ","c","h","o","i","c","e",".">>,
    goodbye |-> <<"G","o","o","d","b","y","e","!">>,
    hdr_transcription |-> <<"\n","-","-","-"," ","T","r","a","n","s","c","r","i","p","t","i","o",
        "n"," ","-","-","-">>,
    hdr_social |-> <<"\n","-","-","-"," ","S","o","c","i","a","l"," ","M","e","d","i","a"," ","P",
        "o","s","t"," ","-","-","-">>,
    hdr_epk |-> <<"\n","-","-","-"," ","E","l","e","c","t","r","o","n","i","c"," ","P","r","e",
        "s","s"," ","K","i","t"," ","(","E","P","K",")"," ","-","-","-">>,
    pdf_saved |-> <<"P","D","F"," ","s","u","c","c","e","s","s","f","u","l","l","y"," ","s","a",
        "v","e","d"," ","a","s"," ">>,
    no_file |-> <<"F","i","l","e"," ","d","o","e","s"," ","n","o","t"," ","e","x","i","s","t",".">>,
    choose_format |-> <<"C","h","o","o","s","e"," ","a","u","d","i","o"," ","f","o","r","m","a",
        "t",":">>,
    opt_mp3 |-> <<" "," ","1",")"," ","M","P","3">>,
    opt_wav |-> <<" "," ","2",")"," ","W","A","V">>,
    default_mp3 |-> <<"I","n","v","a","l","i","d"," ","c","h","o","i","c","e",","," ","d","e","f",
        "a","u","l","t","i","n","g"," ","t","o"," ","M","P","3",".">>,
    dl_ok |-> <<"A","u","d","i","o"," ","d","o","w","n","l","o","a","d","e","d"," ","s","u","c",
        "c","e","s","s","f","u","l","l","y","!">>,
    available |-> <<"A","u","d","i","o"," ","f","i","l","e"," ","a","v","a","i","l","a","b","l",
        "e"," ","a","t",":"," ">>,
    bot |-> <<"T","h","i","s","I","s","M","u","s","i","c",".","a","i",":">>,
    unsupported |-> <<"Y","o","u","T","u","b","e"," ","l","i","n","k","s"," ","a","r","e"," ","n",
        "o","t"," ","s","u","p","p","o","r","t","e","d","."," ","P","l","e","a","s","e"," ","u",
        "s","e"," ","S","o","u","n","d","C","l","o","u","d"," ","o","r"," ","a","n","o","t","h",
        "e","r"," ","p","r","o","v","i","d","e","r",".">>,
    no_audio |-> <<"N","o"," ","a","u","d","i","o"," ","p","r","o","v","i","d","e","d",".">>,
    no_text |-> <<"N","o"," ","t","e","x","t"," ","p","r","o","v","i","d","e","d",".">> ]

\* The f-string templates of the prompts, cut at their placeholders.
Tpl ==
  [ lyrics |-> <<"Y","o","u"," ","a","r","e"," ","a"," ","d","i","g","i","t","a","l"," ","m","u",
        "s","i","c"," ","c","o","n","s","u","l","t","a","n","t",".","\n","G","i","v","e","n"," ",
        "t","h","e"," ","f","o","l","l","o","w","i","n","g"," ","t","r","a","n","s","c","r","i",
        "p","t","i","o","n"," ","o","f"," ","a"," ","s","o","n","g",","," ","p","l","e","a","s",
        "e"," ","r","e","w","r","i","t","e"," ","t","h","e"," ","l","y","r","i","c","s"," ","e",
        "x","a","c","t","l","y"," ","a","s"," ","s","u","n","g",","," ","w","i","t","h"," ","c",
        "l","e","a","r"," ","l","i","n","e"," ","b","r","e","a","k","s"," ","f","o","r"," ","v",
        "e","r","s","e","s",".","\n","T","r","a","n","s","c","r","i","p","t","i","o","n",":","\n">>,
    article |-> <<"Y","o","u"," ","a","r","e"," ","a"," ","d","i","g","i","t","a","l"," ","m","u",
        "s","i","c"," ","c","o","n","s","u","l","t","a","n","t",".","\n","G","i","v","e","n"," ",
        "t","h","e"," ","f","o","l","l","o","w","i","n","g"," ","t","r","a","n","s","c","r","i",
        "p","t","i","o","n"," ","o","f"," ","a","n"," ","a","u","d","i","o"," ","f","i","l","e",
        " ","o","r"," ","w","e","b","s","i","t","e"," ","t","e","x","t",","," ","g","e","n","e",
        "r","a","t","e"," ","a"," ","w","e","l","l","-","s","t","r","u","c","t","u","r","e","d",
        " ","a","r","t","i","c","l","e"," ","d","i","s","c","u","s","s","i","n","g"," ","i","t",
        "s"," ","c","o","n","t","e","n","t",".","\n","T","r","a","n","s","c","r","i","p","t","i",
        "o","n",":","\n">>,
    summarize |-> <<"Y","o","u"," ","a","r","e"," ","a"," ","d","i","g","i","t","a","l"," ","m",
        "u","s","i","c"," ","c","o","n","s","u","l","t","a","n","t",".","\n","P","l","e","a","s",
        "e"," ","s","u","m","m","a","r","i","z","e"," ","t","h","e"," ","f","o","l","l","o","w",
        "i","n","g"," ","t","e","x","t"," ","i","n"," ","a"," ","c","o","n","c","i","s","e"," ",
        "a","n","d"," ","c","l","e","a","r"," ","m","a","n","n","e","r",":","\n">>,
    press_1 |-> <<"Y","o","u"," ","a","r","e"," ","a"," ","d","i","g","i","t","a","l"," ","m","u",
        "s","i","c"," ","c","o","n","s","u","l","t","a","n","t"," ","a","n","d"," ","m","a","r",
        "k","e","t","i","n","g"," ","e","x","p","e","r","t",".","\n","G","e","n","e","r","a","t",
        "e"," ","a"," ","p","r","o","f","e","s","s","i","o","n","a","l"," ","p","r","e","s","s",
        " ","r","e","l","e","a","s","e"," ","f","o","r"," ","t","h","e"," ","f","o","l","l","o",
        "w","i","n","g"," ","d","e","t","a","i","l","s",":","\n","S","o","n","g","/","A","l","b",
        "u","m"," ","T","i","t","l","e",":"," ">>,
    press_2 |-> <<"\n","A","r","t","i","s","t"," ","N","a","m","e",":"," ">>,
    press_3 |-> <<"\n","R","e","l","e","a","s","e"," ","D","a","t","e",":"," ">>,
    press_4 |-> <<"\n","A","l","b","u","m"," ","D","e","s","c","r","i","p","t","i","o","n",":"," ">>,
    press_5 |-> <<"\n","O","u","t","p","u","t"," ","o","n","l","y"," ","t","h","e"," ","p","r",
        "e","s","s"," ","r","e","l","e","a","s","e"," ","t","e","x","t",".">>,
    social_1 |-> <<"Y","o","u"," ","a","r","e"," ","a"," ","d","i","g","i","t","a","l"," ","m",
        "u","s","i","c"," ","c","o","n","s","u","l","t","a","n","t"," ","w","i","t","h"," ","e",
        "x","p","e","r","t","i","s","e"," ","i","n"," ","s","o","c","i","a","l"," ","m","e","d",
        "i","a"," ","m","a","r","k","e","t","i","n","g",".","\n","W","r","i","t","e"," ","a","n",
        " ","e","n","g","a","g","i","n","g"," ","a","n","d"," ","c","o","n","c","i","s","e"," ",
        "s","o","c","i","a","l"," ","m","e","d","i","a"," ","p","o","s","t"," ","t","o"," ","p",
        "r","o","m","o","t","e"," ","t","h","e"," ","s","o","n","g"," ","\"">>,
    social_2 |-> <<"\""," ","b","y"," ">>,
    social_3 |-> <<".","\n","O","u","t","p","u","t"," ","o","n","l","y"," ","t","h","e"," ","p",
        "o","s","t"," ","t","e","x","t",".">>,
    epk_1 |-> <<"Y","o","u"," ","a","r","e"," ","a"," ","d","i","g","i","t","a","l"," ","m","u",
        "s","i","c"," ","c","o","n","s","u","l","t","a","n","t"," ","a","n","d"," ","m","a","r",
        "k","e","t","i","n","g"," ","e","x","p","e","r","t",".","\n","G","e","n","e","r","a","t",
        "e"," ","a"," ","c","o","m","p","r","e","h","e","n","s","i","v","e"," ","E","l","e","c",
        "t","r","o","n","i","c"," ","P","r","e","s","s"," ","K","i","t"," ","(","E","P","K",")",
        " ","f","o","r"," ","t","h","e"," ","a","r","t","i","s","t"," ","\"">>,
    epk_2 |-> <<"\"",".","\n","I","n","c","l","u","d","e",":","\n","-"," ","B","a","c","k","g",
        "r","o","u","n","d"," ","I","n","f","o","r","m","a","t","i","o","n",":"," ">>,
    epk_3 |-> <<"\n","-"," ","A","c","h","i","e","v","e","m","e","n","t","s",":"," ">>,
    epk_4 |-> <<"\n","-"," ","S","o","c","i","a","l"," ","M","e","d","i","a","/","W","e","b","s",
        "i","t","e"," ","L","i","n","k","s",":"," ">>,
    epk_5 |-> <<"\n","-"," ","P","r","e","s","s"," ","Q","u","o","t","e","s",":"," ">>,
    epk_6 |-> <<"\n","O","u","t","p","u","t"," ","o","n","l","y"," ","t","h","e"," ","E","P","K",
        " ","t","e","x","t",".">> ]

(***************************************************************************)
(* The world a command runs in, threaded through the calls it makes:       *)
(*   fs      the files on disk, path |-> [kind, pages]                     *)
(*   calls   the component calls and service requests issued, in order     *)
(*   out     the lines printed                                             *)
(*   asked   the input() prompts answered, with the stripped answers       *)
(*   dl      the files written into the downloads directory                *)
(***************************************************************************)
Call(op, arg) == [op |-> op, arg |-> arg]

Log(w, op, arg) == [w EXCEPT !.calls = Append(@, Call(op, arg))]

\* print(s)
Say(w, s) == [w EXCEPT !.out = Append(@, s)]

\* input(prompt).strip(): the answer typed at prompt q is ans[q]
Ask(w, q, ans) == [ret |-> strip(ans[q]), w |-> [w EXCEPT !.asked = Append(@, [q |-> q, a |-> strip(ans[q])])]]

File(kind, pages) == [kind |-> kind, pages |-> pages]

\* os.path.exists(p)
exists(fs, p) == p \in DOMAIN fs

\* open(p) succeeds: p names a regular file
CanOpen(fs, p) == p \in DOMAIN fs /\ fs[p].kind # "dir"

\* the disk after writing file p
Written(fs, p, f) == [q \in DOMAIN fs \cup {p} |-> IF q = p THEN f ELSE fs[q]]

\* the disk after os.remove(p)
Removed(fs, p) == [q \in DOMAIN fs \ {p} |-> fs[q]]

\* strftime("%Y%m%d%H%M%S") of the clock, t seconds after 2025-06-01 12:00:00
Stamp(t) == Kw.stamp \o <<Digits[t + 1]>>

(***************************************************************************)
(* Component functions.  main.py and gui.py define transcribe_audio,       *)
(* generate_output, generate_press_release, generate_social_media_post,    *)
(* generate_epk, chat_with_api and get_audio with the same bodies (only    *)
(* the spelling of the response access differs), so each is one operator.  *)
(* A service outcome o is [ok, text]: the value returned, or the message   *)
(* of the exception raised.  Each returns [ret, raised, w].                *)
(***************************************************************************)
Ret(v, w) == [ret |-> v, raised |-> FALSE, w |-> w]

Raise(w) == [ret |-> <<>>, raised |-> TRUE, w |-> w]

\* a completion with no try/except around it
Completion_unguarded(w, prompt, errprefix, o) ==
  LET w1 == Log(w, "openai.ChatCompletion.create", prompt)
  IN  IF o.ok THEN Ret(strip(o.text), w1) ELSE Raise(w1)

\* the try/except around one chat completion: the stripped content, or the
\* error string
Completion(w, prompt, errprefix, o) ==
  LET w1 == Log(w, "openai.ChatCompletion.create", prompt)
  IN  IF o.ok THEN Ret(strip(o.text), w1) ELSE Ret(errprefix \o o.text, w1)

transcribe_audio(w, audio_file_path, o) ==
  LET w1 == Log(w, "transcribe_audio", audio_file_path)
  IN  IF ~CanOpen(w1.fs, audio_file_path)
        THEN Ret(Err.transcription \o Err.oserror, w1)
        ELSE LET w2 == Log(w1, "openai.Audio.transcribe", audio_file_path)
             IN  IF o.ok THEN Ret(o.text, w2) ELSE Ret(Err.transcription \o o.text, w2)

\* the prompt generate_output builds for a task
OutputPrompt(text, task) ==
  IF task = Kw.task_lyrics THEN Tpl.lyrics \o text
  ELSE IF task = Kw.task_article THEN Tpl.article \o text
  ELSE IF task = Kw.task_summarize THEN Tpl.summarize \o text
  ELSE text

generate_output(w, text, task, o) ==
  Completion(Log(w, "generate_output", text), OutputPrompt(text, task), Err.gpt, o)

PressReleasePrompt(song_title, artist_name, release_date, album_description) ==
  Tpl.press_1 \o song_title \o Tpl.press_2 \o artist_name \o Tpl.press_3 \o release_date
    \o Tpl.press_4 \o album_description \o Tpl.press_5

generate_press_release(w, song_title, artist_name, release_date, album_description, o) ==
  Completion(Log(w, "generate_press_release", song_title),
             PressReleasePrompt(song_title, artist_name, release_date, album_description),
             Err.press, o)

SocialPrompt(song_title, artist_name) ==
  Tpl.social_1 \o song_title \o Tpl.social_2 \o artist_name \o Tpl.social_3

generate_social_media_post(w, song_title, artist_name, o) ==
  Completion(Log(w, "generate_social_media_post", song_title),
             SocialPrompt(song_title, artist_name), Err.social, o)

EpkPrompt(artist_name, background_info, achievements, social_links, press_quotes) ==
  Tpl.epk_1 \o artist_name \o Tpl.epk_2 \o background_info \o Tpl.epk_3 \o achievements
    \o Tpl.epk_4 \o social_links \o Tpl.epk_5 \o press_quotes \o Tpl.epk_6

generate_epk(w, artist_name, background_info, achievements, social_links, press_quotes, o) ==
  Completion(Log(w, "generate_epk", artist_name),
             EpkPrompt(artist_name, background_info, achievements, social_links, press_quotes),
             Err.epk, o)

chat_with_api(w, prompt, o) ==
  Completion(Log(w, "chat_with_api", prompt), prompt, Err.chat, o)

\* get_audio at clock t.  info is yt-dlp's outcome: [ok, text, ext], the
\* title and the extension of the stream it found, or the exception's
\* message.  FFmpegExtractAudio leaves the audio at <base>.<desired_format>.
get_audio(w, url, desired_format, info, t) ==
  LET w1 == Log(Log(w, "get_audio", url), "yt_dlp.extract_info", url)
      prepared == Kw.downloads \o Stamp(t) \o Kw.underscore \o info.text \o Kw.dot \o info.ext
      parts == splitext(prepared)
      onDisk == parts.base \o Kw.dot \o desired_format
      downloaded_filename ==
        IF lower(parts.ext) # Kw.dot \o desired_format
          THEN parts.base \o Kw.dot \o desired_format
          ELSE prepared
  IN  IF info.ok
        THEN Ret(downloaded_filename,
                 [w1 EXCEPT !.fs = Written(@, onDisk, File("audio", <<>>)),
                            !.dl = @ \cup {onDisk}])
        ELSE Ret(Err.download \o info.text, w1)

\* main.py has two definitions of text_to_pdf; the second (lines 135-154)
\* replaces the first.  Its loop reads image_paths, which is neither a
\* parameter nor a global: a NameError, raised after the text page is laid
\* out and before pdf.output, and caught by its own except.  o is FPDF's
\* outcome for the text page.
main_text_to_pdf(w, text, output_filename, o) ==
  LET w1 == Log(w, "text_to_pdf", output_filename)
  IN  IF o.ok THEN Ret(Err.pdf_images \o Err.name_error, w1)
      ELSE Ret(Err.pdf_images \o o.text, w1)

\* gui.py text_to_pdf: o is FPDF's outcome for laying out and writing
gui_text_to_pdf(w, text, output_filename, o) ==
  LET w1 == Log(w, "text_to_pdf", output_filename)
  IN  IF o.ok THEN Ret(output_filename, [w1 EXCEPT !.fs = Written(@, output_filename, File("pdf", <<[kind |-> "text", body |-> text]>>))])
      ELSE Ret(Err.pdf \o o.text, w1)

(***************************************************************************)
(* The inputs the actions draw from                                        *)
(***************************************************************************)
\* the last second the clock reaches
MaxClock == 1

\* the most GUI handlers, or component functions, run one after the other
MaxRequests == 2

\* lines typed at the "You: " prompt, as typed
Lines ==
  { <<"e","x","i","t">>,
    <<" "," ","Q","u","i","t"," ">>,
    <<"E","X","I","T">>,
    <<"e","x","i","t"," ","n","o","w">>,
    <<"e","x","i","t","s">>,
    <<"/","t","r","a","n","s","c","r","i","b","e">>,
    <<"/","l","y","r","i","c","s">>,
    <<"/","a","r","t","i","c","l","e">>,
    <<"/","s","u","m","m","a","r","i","z","e"," ","n","o","w">>,
    <<"/","g","e","t","a","u","d","i","o">>,
    <<"/","p","r","e","s","s","r","e","l","e","a","s","e">>,
    <<"/","s","o","c","i","a","l">>,
    <<"/","e","p","k">>,
    <<"/","c","h","a","t">>,
    <<"/","L","y","r","i","c","s">>,
    <<"/","c","r","a","w","l">>,
    <<"/","w","e","b","i","m","a","g","e","s">>,
    <<"h","e","l","l","o">>,
    <<>>,
    <<" ","/","c","h","a","t","t","e","r">> }

\* files of the user in the working directory, and names that are no file
UserAudio == <<"s","o","n","g",".","m","p","3">>
UserText == <<"n","o","t","e","s",".","t","x","t">>
UserDir == <<".">>
NoFile == <<"n","o","f","i","l","e",".","m","p","3">>
PdfName == <<"o","u","t",".","p","d","f">>

\* image files of the user; MissingPhoto is no file, and its name has a
\* character outside Latin-1 (written U+0444)
UserPhoto == <<"b","a","n","d",".","p","n","g">>
UserLogo == <<"l","o","g","o",".","j","p","g">>
MissingPhoto == <<"U+0444",".","p","n","g">>

\* URLs typed or pasted
PlainUrl == <<"h","t","t","p","s",":","/","/","s","o","u","n","d","c","l","o","u","d",".","c","o","m","/","a">>
YouTubeUrl == <<"h","t","t","p","s",":","/","/","w","w","w",".","y","o","u","t","u","b","e",".","c","o","m","/","w","a","t","c","h","?","v","=","1">>
ShortYouTubeUrl == <<"h","t","t","p","s",":","/","/","Y","o","u","T","u",".","b","e","/","x">>
UpperYouTubeUrl == <<"H","T","T","P","S",":","/","/","M",".","Y","O","U","T","U","B","E",".","C","O","M","/","v">>
LookalikeUrl == <<"h","t","t","p","s",":","/","/","y","o","u","t","u","b","e",".","c","o","/","m">>
Urls == {PlainUrl, YouTubeUrl, ShortYouTubeUrl, UpperYouTubeUrl, LookalikeUrl}

\* a file uploaded through the GUI, as Gradio stores it
UploadedAudio == <<"/","t","m","p","/","g","r","a","d","i","o","/","a",".","m","p","3">>

\* outcomes of the services
Ok(text) == [ok |-> TRUE, text |-> text]
Failed(text) == [ok |-> FALSE, text |-> text]
Infos == { [ok |-> TRUE, text |-> <<"h","i","t">>, ext |-> <<"w","e","b","m">>], [ok |-> FALSE, text |-> <<"H","T","T","P"," ","4","0","3">>, ext |-> <<>>] }
Transcripts == { Ok(<<"l","a"," ","l","a">>), Ok(<<>>), Ok(<<"E","r","r","o","r"," ","o","f"," ","l","o","v","e">>), Failed(<<"t","i","m","e","o","u","t">>) }
Completions == { Ok(<<" ","V","e","r","s","e"," ","o","n","e","\n">>), Failed(<<"r","a","t","e"," ","l","i","m","i","t">>) }
Renderings == { Ok(<<>>), Failed(<<"l","a","t","i","n","-","1">>) }
Pages == { Ok(<<"n","e","w","s","\n">>), Failed(<<"u","n","r","e","a","c","h","a","b","l","e">>) }

(***************************************************************************)
(* State                                                                   *)
(***************************************************************************)
VARIABLES
  state,       \* the dispatcher: "awaiting_command", "terminated", or "crashed" (an exception left main)
  now,         \* the clock, in seconds
  fs,          \* the files on disk
  user_input,  \* the stripped line the last command was read from
  asked,       \* the prompts the last command or handler answered
  calls,       \* the calls the last command or handler issued
  printed,     \* the lines the last command printed
  downloaded,  \* the files the last command or handler wrote into downloads
  handler,     \* the last command branch, GUI handler or component function run
  returned,    \* what the last GUI handler or component call returned
  escaped,     \* whether an exception left the last command, handler or component call
  requests,    \* the number of GUI handlers and component functions run so far
  remembered,  \* the first (task, text, prompt) generate_output was seen to send, if any
  outcomes,    \* the outcomes of the services the last command could reach
  history,     \* the conversation the GUI's chat panel holds
  visible,     \* which groups of the GUI are shown
  api_key      \* OPENAI_API_KEY of the environment (None when unset), which startup puts in openai.api_key

vars == <<state, now, fs, user_input, asked, calls, printed, downloaded, handler, returned,
          escaped, requests, remembered, outcomes, history, visible, api_key>>

\* the world a command or handler starts in
World == [fs |-> fs, calls |-> <<>>, out |-> <<>>, asked |-> <<>>, dl |-> {}]

\* the groups of the GUI, in the order of the outputs of function_choice.change
Groups ==
  << "chat_group", "transcribe_group", "lyrics_group", "article_group", "summarize_group",
     "getaudio_group", "pressrelease_group", "social_group", "epk_group", "crawl_group",
     "images_group" >>

\* gr.Group(visible=...) as the page is built
Visible0 == [i \in 1..Len(Groups) |-> Groups[i] = "chat_group"]

Disk0 ==
  [p \in {UserAudio, UploadedAudio, UserText, UserDir, UserPhoto, UserLogo} |->
     IF p \in {UserAudio, UploadedAudio} THEN File("audio", <<>>)
     ELSE IF p \in {UserPhoto, UserLogo} THEN File("image", <<>>)
     ELSE IF p = UserText THEN File("text", <<[kind |-> "text", body |-> <<"l","a">>]>>)
     ELSE File("dir", <<>>)]

Init ==
  /\ state = "awaiting_command"
  /\ now = 0
  /\ fs = Disk0
  /\ user_input = <<>>
  /\ asked = <<>>
  /\ calls = <<>>
  /\ printed = <<>>
  /\ downloaded = {}
  /\ handler = "none"
  /\ returned = <<>>
  /\ escaped = FALSE
  /\ requests = 0
  /\ remembered = <<>>
  /\ outcomes = <<>>
  /\ history = <<>>
  /\ visible = Visible0
  /\ api_key = [none |-> FALSE, v |-> <<"s","k","-","1">>]

\* time passes
Tick ==
  /\ now < MaxClock
  /\ now' = now + 1
  /\ UNCHANGED <<state, fs, user_input, asked, calls, printed, downloaded, handler, returned,
                 escaped, requests, remembered, outcomes, history, visible, api_key>>

(***************************************************************************)
(* main.py: the command loop                                               *)
(***************************************************************************)
\* Branch with the commands compared for equality instead of by prefix
Branch_whole_line(line) ==
  IF lower(line) \in {Kw.exit, Kw.quit} THEN "exit"
  ELSE IF line = Kw.transcribe THEN "transcribe"
  ELSE IF line = Kw.lyrics THEN "lyrics"
  ELSE IF line = Kw.article THEN "article"
  ELSE IF line = Kw.summarize THEN "summarize"
  ELSE IF line = Kw.getaudio THEN "getaudio"
  ELSE IF line = Kw.pressrelease THEN "pressrelease"
  ELSE IF line = Kw.social THEN "social"
  ELSE IF line = Kw.epk THEN "epk"
  ELSE IF line = Kw.chat THEN "chat"
  ELSE "default"

\* the if/elif chain of main(): the branch a stripped line takes
Branch(line) ==
  IF lower(line) \in {Kw.exit, Kw.quit} THEN "exit"
  ELSE IF startswith(line, Kw.transcribe) THEN "transcribe"
  ELSE IF startswith(line, Kw.lyrics) THEN "lyrics"
  ELSE IF startswith(line, Kw.article) THEN "article"
  ELSE IF startswith(line, Kw.summarize) THEN "summarize"
  ELSE IF startswith(line, Kw.getaudio) THEN "getaudio"
  ELSE IF startswith(line, Kw.pressrelease) THEN "pressrelease"
  ELSE IF startswith(line, Kw.social) THEN "social"
  ELSE IF startswith(line, Kw.epk) THEN "epk"
  ELSE IF startswith(line, Kw.chat) THEN "chat"
  ELSE "default"

prompt_for_audio_source(w, ans, o, t) ==
  LET mode == Ask(w, "mode", ans)
  IN  IF mode.ret = Kw.one
        THEN LET audio_path == Ask(mode.w, "path", ans) IN Ret(audio_path.ret, audio_path.w)
      ELSE IF mode.ret = Kw.two
        THEN LET url == Ask(mode.w, "url", ans)
                 file_path == get_audio(url.w, url.ret, Kw.mp3, o.info, t)
             IN  IF startswith(file_path.ret, Kw.Error)
                   THEN Ret(<<>>, Say(file_path.w, Msg.cannot_download))
                   ELSE Ret(file_path.ret, file_path.w)
      ELSE Ret(<<>>, Say(mode.w, Msg.invalid_choice))

\* remove_if_exists with the os.remove forgotten
remove_if_exists_forgotten(w, p) == Ret(<<>>, w)

\* if os.path.exists(p): os.remove(p).  os.remove raises on a directory.
remove_if_exists(w, p) ==
  IF ~exists(w.fs, p) THEN Ret(<<>>, w)
  ELSE IF w.fs[p].kind = "dir" THEN Raise(w)
  ELSE Ret(<<>>, [w EXCEPT !.fs = Removed(@, p)])

\* transcribe_generate_export asking for the text a second time when the first call failed
transcribe_generate_export_retrying(w, audio_path, task, ans, o) ==
  LET transcript == transcribe_audio(w, audio_path, o.tr)
      first == generate_output(transcript.w, transcript.ret, task, o.gen)
      output_text == IF o.gen.ok THEN first ELSE generate_output(first.w, transcript.ret, task, o.gen)
      pdf_filename == Ask(output_text.w, "pdf", ans)
      pdf_path == main_text_to_pdf(pdf_filename.w, output_text.ret, pdf_filename.ret, o.pdf)
  IN  Say(pdf_path.w, Msg.pdf_saved \o pdf_path.ret)

\* transcript -> generate_output -> filename prompt -> text_to_pdf -> print
\* (lines 370-374, 383-387, 453-457, 459-463)
transcribe_generate_export(w, audio_path, task, ans, o) ==
  LET transcript == transcribe_audio(w, audio_path, o.tr)
      output_text == generate_output(transcript.w, transcript.ret, task, o.gen)
      pdf_filename == Ask(output_text.w, "pdf", ans)
      pdf_path == main_text_to_pdf(pdf_filename.w, output_text.ret, pdf_filename.ret, o.pdf)
  IN  Say(pdf_path.w, Msg.pdf_saved \o pdf_path.ret)

cmd_transcribe(w, ans, o, t) ==
  LET audio_path == prompt_for_audio_source(w, ans, o, t)
  IN  IF audio_path.ret = <<>> THEN Ret(<<>>, audio_path.w)
      ELSE LET transcript == transcribe_audio(audio_path.w, audio_path.ret, o.tr)
               w1 == Say(Say(transcript.w, Msg.hdr_transcription), transcript.ret)
           IN  remove_if_exists(w1, audio_path.ret)

\* /lyrics and /article differ in the task only
cmd_audio_to_pdf(w, task, ans, o, t) ==
  LET audio_path == prompt_for_audio_source(w, ans, o, t)
  IN  IF audio_path.ret = <<>> THEN Ret(<<>>, audio_path.w)
      ELSE remove_if_exists(transcribe_generate_export(audio_path.w, audio_path.ret, task, ans, o),
                            audio_path.ret)

cmd_lyrics(w, ans, o, t) == cmd_audio_to_pdf(w, Kw.task_lyrics, ans, o, t)

cmd_article(w, ans, o, t) == cmd_audio_to_pdf(w, Kw.task_article, ans, o, t)

\* generate_output -> filename prompt -> text_to_pdf -> print (lines 414-417)
summarize_export(w, text, ans, o) ==
  LET output_text == generate_output(w, text, Kw.task_summarize, o.gen)
      pdf_filename == Ask(output_text.w, "pdf", ans)
      pdf_path == main_text_to_pdf(pdf_filename.w, output_text.ret, pdf_filename.ret, o.pdf)
  IN  Ret(<<>>, Say(pdf_path.w, Msg.pdf_saved \o pdf_path.ret))

\* cmd_summarize going on to summarise after a failed fetch
cmd_summarize_fetch_unchecked(w, ans, o, t) ==
  LET choice == Ask(w, "choice", ans)
  IN  IF choice.ret = Kw.one
        THEN LET file_path == Ask(choice.w, "path", ans)
                 w1 == Log(file_path.w, "open", file_path.ret)
             IN  IF exists(w1.fs, file_path.ret) /\ w1.fs[file_path.ret].kind = "text"
                   THEN summarize_export(w1, w1.fs[file_path.ret].pages[1].body, ans, o)
                   ELSE Ret(<<>>, Say(w1, Err.readfile \o Err.oserror))
      ELSE IF choice.ret = Kw.two
        THEN LET url == Ask(choice.w, "url", ans)
                 w1 == Log(url.w, "requests.get", url.ret)
             IN  IF o.http.ok
                   THEN summarize_export(w1, o.http.text, ans, o)
                   ELSE summarize_export(Say(w1, Err.dltext \o o.http.text), o.http.text, ans, o)
      ELSE Ret(<<>>, Say(choice.w, Msg.invalid_choice))

cmd_summarize(w, ans, o, t) ==
  LET choice == Ask(w, "choice", ans)
  IN  IF choice.ret = Kw.one
        THEN LET file_path == Ask(choice.w, "path", ans)
                 w1 == Log(file_path.w, "open", file_path.ret)
             IN  IF exists(w1.fs, file_path.ret) /\ w1.fs[file_path.ret].kind = "text"
                   THEN summarize_export(w1, w1.fs[file_path.ret].pages[1].body, ans, o)
                   ELSE Ret(<<>>, Say(w1, Err.readfile \o Err.oserror))
      ELSE IF choice.ret = Kw.two
        THEN LET url == Ask(choice.w, "url", ans)
                 w1 == Log(url.w, "requests.get", url.ret)
             IN  IF o.http.ok
                   THEN summarize_export(w1, o.http.text, ans, o)
                   ELSE Ret(<<>>, Say(w1, Err.dltext \o o.http.text))
      ELSE Ret(<<>>, Say(choice.w, Msg.invalid_choice))

cmd_getaudio(w, ans, o, t) ==
  LET w0 == Say(Say(Say(w, Msg.choose_format), Msg.opt_mp3), Msg.opt_wav)
      fmt_choice == Ask(w0, "fmt", ans)
      known == fmt_choice.ret \in {Kw.one, Kw.two}
      desired_format == IF fmt_choice.ret = Kw.two THEN Kw.wav ELSE Kw.mp3
      w1 == IF known THEN fmt_choice.w ELSE Say(fmt_choice.w, Msg.default_mp3)
      source == Ask(w1, "source", ans)
      \* lines 449-467, once downloaded_path is set
      process(w2, downloaded_path) ==
        LET w3 == Say(w2, Msg.dl_ok)
            process_choice == Ask(w3, "process", ans)
            w4 == IF process_choice.ret = Kw.one
                    THEN transcribe_generate_export(process_choice.w, downloaded_path, Kw.task_lyrics, ans, o)
                  ELSE IF process_choice.ret = Kw.two
                    THEN transcribe_generate_export(process_choice.w, downloaded_path, Kw.task_article, ans, o)
                  ELSE Say(process_choice.w, Msg.available \o downloaded_path)
        IN  remove_if_exists(w4, downloaded_path)
  IN  IF source.ret = Kw.one
        THEN LET url == Ask(source.w, "url", ans)
                 file_path == get_audio(url.w, url.ret, desired_format, o.info, t)
             IN  IF startswith(file_path.ret, Kw.Error)
                   THEN Ret(<<>>, Say(file_path.w, Msg.cannot_download))
                 ELSE IF file_path.ret = <<>> THEN Ret(<<>>, file_path.w)
                 ELSE process(file_path.w, file_path.ret)
      ELSE IF source.ret = Kw.two
        THEN LET downloaded_path == Ask(source.w, "path", ans)
             IN  IF ~exists(downloaded_path.w.fs, downloaded_path.ret)
                   THEN Ret(<<>>, Say(downloaded_path.w, Msg.no_file))
                 ELSE IF downloaded_path.ret = <<>> THEN Ret(<<>>, downloaded_path.w)
                 ELSE process(downloaded_path.w, downloaded_path.ret)
      ELSE Ret(<<>>, Say(source.w, Msg.invalid_choice))

cmd_pressrelease(w, ans, o, t) ==
  LET song_title == Ask(w, "title", ans)
      artist_name == Ask(song_title.w, "artist", ans)
      release_date == Ask(artist_name.w, "date", ans)
      album_description == Ask(release_date.w, "description", ans)
      output_text == generate_press_release(album_description.w, song_title.ret, artist_name.ret,
                                            release_date.ret, album_description.ret, o.gen)
      pdf_filename == Ask(output_text.w, "pdf", ans)
      pdf_path == main_text_to_pdf(pdf_filename.w, output_text.ret, pdf_filename.ret, o.pdf)
  IN  Ret(<<>>, Say(pdf_path.w, Msg.pdf_saved \o pdf_path.ret))

cmd_social(w, ans, o, t) ==
  LET song_title == Ask(w, "title", ans)
      artist_name == Ask(song_title.w, "artist", ans)
      post == generate_social_media_post(artist_name.w, song_title.ret, artist_name.ret, o.gen)
  IN  Ret(<<>>, Say(Say(post.w, Msg.hdr_social), post.ret))

cmd_epk(w, ans, o, t) ==
  LET artist_name == Ask(w, "artist", ans)
      background_info == Ask(artist_name.w, "background", ans)
      achievements == Ask(background_info.w, "achievements", ans)
      social_links == Ask(achievements.w, "links", ans)
      press_quotes == Ask(social_links.w, "quotes", ans)
      epk_text == generate_epk(press_quotes.w, artist_name.ret, background_info.ret,
                               achievements.ret, social_links.ret, press_quotes.ret, o.gen)
      w1 == Say(Say(epk_text.w, Msg.hdr_epk), epk_text.ret)
      pdf_choice == Ask(w1, "save", ans)
  IN  IF lower(pdf_choice.ret) = Kw.y
        THEN LET pdf_filename == Ask(pdf_choice.w, "pdf", ans)
             IN  Ret(<<>>, main_text_to_pdf(pdf_filename.w, epk_text.ret, pdf_filename.ret, o.pdf).w)
        ELSE Ret(<<>>, pdf_choice.w)

\* print("ThisIsMusic.ai:", response, "\n")
BotLine(response) == Msg.bot \o Kw.space \o response \o Kw.space \o Kw.newline

cmd_chat(w, ans, o, t) ==
  LET prompt == Ask(w, "message", ans)
      response == chat_with_api(prompt.w, prompt.ret, o.gen)
  IN  Ret(<<>>, Say(response.w, BotLine(response.ret)))

cmd_default(w, line, o) ==
  LET response == chat_with_api(w, line, o.gen)
  IN  Ret(<<>>, Say(response.w, BotLine(response.ret)))

\* what one pass of the loop leaves behind
Pass(line, branch, o, r) ==
  /\ user_input' = line
  /\ handler' = branch
  /\ fs' = r.w.fs
  /\ asked' = r.w.asked
  /\ calls' = r.w.calls
  /\ printed' = r.w.out
  /\ downloaded' = r.w.dl
  /\ returned' = <<>>
  /\ escaped' = r.raised
  /\ state' = IF r.raised THEN "crashed" ELSE "awaiting_command"
  /\ outcomes' = o
  /\ UNCHANGED <<now, requests, remembered, history, visible, api_key>>

\* the outcomes of the services a command may call
Oracle(info, tr, gen, pdf, http) == [info |-> info, tr |-> tr, gen |-> gen, pdf |-> pdf, http |-> http]

\* the runs of a command: the answers typed at its prompts, with the outcomes
\* of the services it reaches
Runs(A, I, T, G, P, H) ==
  {[ans |-> a, o |-> Oracle(i, t, g, p, h)] : a \in A, i \in I, t \in T, g \in G, p \in P, h \in H}

Good == Ok(<<"o","k">>)
GoodInfo == CHOOSE i \in Infos : i.ok

\* answers to "Use (1) file or (2) link?" and the prompts that follow it
FromFile(paths) == [mode : {<<"1">>}, path : paths, url : {<<>>}, pdf : {PdfName}]
FromLink(urls) == [mode : {<<" ","2">>}, path : {<<>>}, url : urls, pdf : {PdfName}]
FromNeither == [mode : {<<"3">>, <<>>}, path : {<<>>}, url : {<<>>}, pdf : {PdfName}]

TranscribeRuns ==
  Runs(FromFile({<<" ">> \o UserAudio}), {GoodInfo}, Transcripts, {Good}, {Good}, {Good})
    \cup Runs(FromFile({UserDir, NoFile, <<>>}), {GoodInfo}, {Good}, {Good}, {Good}, {Good})
    \cup Runs(FromLink({PlainUrl}), Infos, Transcripts, {Good}, {Good}, {Good})
    \cup Runs(FromLink({<<" ">> \o YouTubeUrl}), {GoodInfo}, {Good}, {Good}, {Good}, {Good})
    \cup Runs(FromNeither, {GoodInfo}, {Good}, {Good}, {Good}, {Good})

AudioRuns ==
  Runs(FromFile({<<" ">> \o UserAudio}), {GoodInfo}, Transcripts, Completions, Renderings, {Good})
    \cup Runs(FromFile({UserDir, NoFile}), {GoodInfo}, {Good}, Completions, {Good}, {Good})
    \cup Runs(FromFile({<<>>}), {GoodInfo}, {Good}, {Good}, {Good}, {Good})
    \cup Runs(FromLink({PlainUrl}), Infos, Transcripts, Completions, {Good}, {Good})
    \cup Runs(FromLink({<<" ">> \o YouTubeUrl}), {GoodInfo}, {Good}, {Good}, {Good}, {Good})
    \cup Runs(FromNeither, {GoodInfo}, {Good}, {Good}, {Good}, {Good})

\* answers to the prompts of /summarize
SummarizeRuns ==
  Runs([choice : {<<"1">>}, path : {UserText}, url : {<<>>}, pdf : {PdfName}],
       {GoodInfo}, {Good}, Completions, Renderings, {Good})
    \cup Runs([choice : {<<"1">>}, path : {NoFile, UserAudio}, url : {<<>>}, pdf : {PdfName}],
              {GoodInfo}, {Good}, {Good}, {Good}, {Good})
    \cup Runs([choice : {<<"2"," ">>}, path : {<<>>}, url : {PlainUrl}, pdf : {PdfName}],
              {GoodInfo}, {Good}, Completions, {Good}, Pages)
    \cup Runs([choice : {<<"x">>}, path : {<<>>}, url : {<<>>}, pdf : {PdfName}],
              {GoodInfo}, {Good}, {Good}, {Good}, {Good})

\* answers to the prompts of /getaudio
GetAudioAnswers(fmts, sources, paths, choices) ==
  [fmt : fmts, source : sources, url : {PlainUrl}, path : paths, process : choices, pdf : {PdfName}]

GetAudioRuns ==
  Runs(GetAudioAnswers({<<"1">>, <<"2">>, <<"9">>}, {<<"1">>}, {<<>>}, {<<"3">>}),
       Infos, {Good}, {Good}, {Good}, {Good})
    \cup Runs(GetAudioAnswers({<<"1">>}, {<<"1">>}, {<<>>}, {<<"1">>, <<" ","2">>}),
              {GoodInfo}, Transcripts, Completions, {Good}, {Good})
    \cup Runs(GetAudioAnswers({<<"1">>}, {<<"2">>}, {UserAudio}, {<<"1">>}),
              {GoodInfo}, Transcripts, Completions, Renderings, {Good})
    \cup Runs(GetAudioAnswers({<<"1">>}, {<<"2">>}, {UserAudio, UserDir}, {<<"2">>, <<"n","o">>}),
              {GoodInfo}, {Good}, {Good}, {Good}, {Good})
    \cup Runs(GetAudioAnswers({<<"1">>}, {<<"2">>, <<"0">>}, {NoFile, <<>>}, {<<"3">>}),
              {GoodInfo}, {Good}, {Good}, {Good}, {Good})

\* answers to the prompts of /pressrelease, /social, /epk and /chat
FormAnswers(saves, messages) ==
  [title : {<<"M","i","d","n","i","g","h","t">>}, artist : {<<"N","o","v","a">>},
   date : {<<"2","0","2","5","-","0","6","-","0","1">>},
   description : {<<"a"," ","d","r","e","a","m","-","p","o","p"," ","s","i","n","g","l","e">>},
   background : {<<"b","o","r","n">>}, achievements : {<<"g","o","l","d">>},
   links : {<<"n","o","v","a",".","f","m">>}, quotes : {<<>>},
   save : saves, message : messages, pdf : {PdfName}]

PressReleaseRuns == Runs(FormAnswers({<<>>}, {<<>>}), {GoodInfo}, {Good}, Completions, Renderings, {Good})

SocialRuns == Runs(FormAnswers({<<>>}, {<<>>}), {GoodInfo}, {Good}, Completions, {Good}, {Good})

EpkRuns ==
  Runs(FormAnswers({<<" ","Y">>}, {<<>>}), {GoodInfo}, {Good}, Completions, Renderings, {Good})
    \cup Runs(FormAnswers({<<"n">>}, {<<>>}), {GoodInfo}, {Good}, Completions, {Good}, {Good})

ChatRuns ==
  Runs(FormAnswers({<<>>}, {<<" ","h","i"," ">>, <<"/","l","y","r","i","c","s">>}),
       {GoodInfo}, {Good}, Completions, {Good}, {Good})

DefaultRuns == Runs({<<>>}, {GoodInfo}, {Good}, Completions, {Good}, {Good})

\* lines 349-352: an exit keyword ends the loop
CmdExit ==
  /\ state = "awaiting_command"
  /\ \E raw \in Lines :
       /\ Branch(strip(raw)) = "exit"
       /\ user_input' = strip(raw)
       /\ handler' = "exit"
       /\ printed' = <<Msg.goodbye>>
       /\ asked' = <<>>
       /\ calls' = <<>>
       /\ downloaded' = {}
       /\ returned' = <<>>
       /\ escaped' = FALSE
       /\ state' = "terminated"
       /\ outcomes' = <<>>
       /\ UNCHANGED <<now, fs, requests, remembered, history, visible, api_key>>

CmdTranscribe ==
  /\ state = "awaiting_command"
  /\ \E raw \in Lines :
       /\ Branch(strip(raw)) = "transcribe"
       /\ \E run \in TranscribeRuns :
            Pass(strip(raw), "transcribe", run.o, cmd_transcribe(World, run.ans, run.o, now))

CmdLyrics ==
  /\ state = "awaiting_command"
  /\ \E raw \in Lines :
       /\ Branch(strip(raw)) = "lyrics"
       /\ \E run \in AudioRuns :
            Pass(strip(raw), "lyrics", run.o, cmd_lyrics(World, run.ans, run.o, now))

CmdArticle ==
  /\ state = "awaiting_command"
  /\ \E raw \in Lines :
       /\ Branch(strip(raw)) = "article"
       /\ \E run \in AudioRuns :
            Pass(strip(raw), "article", run.o, cmd_article(World, run.ans, run.o, now))

CmdSummarize ==
  /\ state = "awaiting_command"
  /\ \E raw \in Lines :
       /\ Branch(strip(raw)) = "summarize"
       /\ \E run \in SummarizeRuns :
            Pass(strip(raw), "summarize", run.o, cmd_summarize(World, run.ans, run.o, now))

CmdGetAudio ==
  /\ state = "awaiting_command"
  /\ \E raw \in Lines :
       /\ Branch(strip(raw)) = "getaudio"
       /\ \E run \in GetAudioRuns :
            Pass(strip(raw), "getaudio", run.o, cmd_getaudio(World, run.ans, run.o, now))

CmdPressRelease ==
  /\ state = "awaiting_command"
  /\ \E raw \in Lines :
       /\ Branch(strip(raw)) = "pressrelease"
       /\ \E run \in PressReleaseRuns :
            Pass(strip(raw), "pressrelease", run.o, cmd_pressrelease(World, run.ans, run.o, now))

CmdSocial ==
  /\ state = "awaiting_command"
  /\ \E raw \in Lines :
       /\ Branch(strip(raw)) = "social"
       /\ \E run \in SocialRuns :
            Pass(strip(raw), "social", run.o, cmd_social(World, run.ans, run.o, now))

CmdEpk ==
  /\ state = "awaiting_command"
  /\ \E raw \in Lines :
       /\ Branch(strip(raw)) = "epk"
       /\ \E run \in EpkRuns :
            Pass(strip(raw), "epk", run.o, cmd_epk(World, run.ans, run.o, now))

CmdChat ==
  /\ state = "awaiting_command"
  /\ \E raw \in Lines :
       /\ Branch(strip(raw)) = "chat"
       /\ \E run \in ChatRuns :
            Pass(strip(raw), "chat", run.o, cmd_chat(World, run.ans, run.o, now))

CmdDefault ==
  /\ state = "awaiting_command"
  /\ \E raw \in Lines :
       /\ Branch(strip(raw)) = "default"
       /\ \E run \in DefaultRuns :
            Pass(strip(raw), "default", run.o, cmd_default(World, strip(raw), run.o))

NextCLI ==
  \/ Tick
  \/ CmdExit
  \/ CmdTranscribe
  \/ CmdLyrics
  \/ CmdArticle
  \/ CmdSummarize
  \/ CmdGetAudio
  \/ CmdPressRelease
  \/ CmdSocial
  \/ CmdEpk
  \/ CmdChat
  \/ CmdDefault

\* the command-line program
SpecCLI == Init /\ [][NextCLI]_vars

\* the process before the module's top-level code has run: the key is unset,
\* empty or set
InitStartup ==
  /\ state = "starting"
  /\ now = 0
  /\ fs = Disk0
  /\ user_input = <<>>
  /\ asked = <<>>
  /\ calls = <<>>
  /\ printed = <<>>
  /\ downloaded = {}
  /\ handler = "none"
  /\ returned = <<>>
  /\ escaped = FALSE
  /\ requests = 0
  /\ remembered = <<>>
  /\ outcomes = <<>>
  /\ history = <<>>
  /\ visible = Visible0
  /\ api_key \in { [none |-> TRUE, v |-> <<>>], [none |-> FALSE, v |-> <<>>],
                   [none |-> FALSE, v |-> <<"s","k","-","1">>] }

\* lines 13-16: `not openai.api_key` is true of None and of the empty string;
\* the ValueError is raised at import, before main() is entered
Startup ==
  /\ state = "starting"
  /\ handler' = "startup"
  /\ escaped' = (api_key.none \/ api_key.v = <<>>)
  /\ state' = IF escaped' THEN "config_error" ELSE "awaiting_command"
  /\ UNCHANGED <<now, fs, user_input, asked, calls, printed, downloaded, returned, requests,
                 remembered, outcomes, history, visible, api_key>>

\* the command-line program from the start of the process
SpecStartup == InitStartup /\ [][Startup \/ NextCLI]_vars

(***************************************************************************)
(* gui.py                                                                  *)
(***************************************************************************)
\* a value that may be None
Some(v) == [none |-> FALSE, v |-> v]
None == [none |-> TRUE, v |-> <<>>]

Page(kind, body) == [kind |-> kind, body |-> body]

\* the test of lines 534 and 575 with the .lower() left out
blocked_host_case_sensitive(url) ==
  contains(url, Kw.youtube_com) \/ contains(url, Kw.youtu_be)

\* "youtube.com" in url.lower() or "youtu.be" in url.lower()
blocked_host(url) ==
  contains(lower(url), Kw.youtube_com) \/ contains(lower(url), Kw.youtu_be)

\* raw_text.splitlines(), for a text whose line ends are "\n"
RECURSIVE splitlines(_)
splitlines(s) ==
  LET ends == {i \in 1..Len(s) : s[i] = "\n"}
  IN  IF s = <<>> THEN <<>>
      ELSE IF ends = {} THEN <<s>>
      ELSE <<SubSeq(s, 1, Min(ends) - 1)>> \o splitlines(SubSeq(s, Min(ends) + 1, Len(s)))

\* "\n".join(lines)
RECURSIVE join(_)
join(lines) ==
  IF lines = <<>> THEN <<>>
  ELSE IF Len(lines) = 1 THEN lines[1]
  ELSE lines[1] \o Kw.newline \o join(Tail(lines))

\* lines 255-256: the stripped non-blank lines of the page text
CleanedText(raw_text) ==
  LET all == splitlines(raw_text)
      kept == SelectSeq([i \in 1..Len(all) |-> strip(all[i])], LAMBDA line : line # <<>>)
  IN  join(kept)

\* the most characters of a page handed to the generator (line 257)
MaxPageChars == 10000

\* lines 257-258 with the cut left out
Truncated_uncut(cleaned_text) == cleaned_text

\* lines 257-258
Truncated(cleaned_text) ==
  IF Len(cleaned_text) > MaxPageChars THEN SubSeq(cleaned_text, 1, MaxPageChars) ELSE cleaned_text

\* urljoin(url, src) for a src that is a path from the root: the scheme and
\* host of url, then src
urljoin(url, src) ==
  LET slashes == {i \in 1..Len(url) : url[i] = "/"}
      third == {i \in slashes : Cardinality({j \in slashes : j < i}) = 2}
  IN  IF third = {} THEN url \o src ELSE SubSeq(url, 1, Min(third) - 1) \o src

\* strftime("%Y%m%d%H%M%S%f") when the k-th image of a crawl is saved: the
\* requests between two images take time, so the microseconds differ
MicroStamp(t, k) == Stamp(t) \o <<"0","0","0","0","0">> \o <<Digits[k + 1]>>

\* pdf.image(img, w=100) succeeds: img is the path of an image file
Embeddable(fs_, img) == exists(fs_, img) /\ fs_[img].kind = "image"

\* the page add_page() and the inner try of lines 220-224 leave for one image
ImagePage(fs_, img) ==
  IF Embeddable(fs_, img) THEN Page("image", img) ELSE Page("error", img)

\* FPDF's built-in Arial takes Latin-1 text only: a line with any other
\* character raises, when it is laid out or when the file is written
Latin1(s) == \A i \in 1..Len(s) : s[i] \notin {"U+0444"}

\* the error lines (each names its image path) can be laid out and written
Writable(entries) == \A i \in 1..Len(entries) : entries[i].kind = "error" => Latin1(entries[i].body)

\* gui.py create_epk_pdf: the text page, then, if there are photos, ONE page
\* headed "Photos:" that takes every photo, or the error line written in its
\* place, one under the other.  photos are given by their paths (photo.name
\* of an upload).  o is FPDF's outcome for the text page and for writing the
\* file.
create_epk_pdf(w, epk_text, output_filename, photos, o) ==
  LET w1 == Log(w, "create_epk_pdf", output_filename)
      entries == [i \in 1..Len(photos) |-> ImagePage(w1.fs, photos[i])]
      pages == IF photos # <<>> THEN <<Page("text", epk_text), Page("photos", entries)>>
               ELSE <<Page("text", epk_text)>>
  IN  IF ~o.ok THEN Ret(Err.epk_pdf \o o.text, w1)
      ELSE IF ~Writable(entries) THEN Ret(Err.epk_pdf \o Err.latin1, w1)
      ELSE Ret(output_filename, [w1 EXCEPT !.fs = Written(@, output_filename, File("pdf", pages))])

\* o is FPDF's outcome for the text page and for writing the file
create_pdf_with_images(w, text, output_filename, image_paths, o) ==
  LET w1 == Log(w, "create_pdf_with_images", output_filename)
      entries == [i \in 1..Len(image_paths) |-> ImagePage(w1.fs, image_paths[i])]
      pages == <<Page("text", text)>> \o entries
  IN  IF ~o.ok THEN Ret(Err.pdf_images \o o.text, w1)
      ELSE IF ~Writable(entries) THEN Ret(Err.pdf_images \o Err.latin1, w1)
      ELSE Ret(output_filename, [w1 EXCEPT !.fs = Written(@, output_filename, File("pdf", pages))])

\* lines 276-286: the images of the page, saved one after the other.  imgs is
\* the list of [src, ok]: the src of an <img> tag and how its download ends.
RECURSIVE download_images(_, _, _, _, _)
download_images(w, url, imgs, k, t) ==
  IF imgs = <<>> THEN [w |-> w, paths |-> <<>>]
  ELSE LET src == Head(imgs).src
           img_url == IF startswith(src, Kw.http) THEN src ELSE urljoin(url, src)
           w1 == Log(w, "requests.get", img_url)
           img_filename == Kw.downloads \o Kw.img \o MicroStamp(t, k) \o Kw.jpg
           w2 == IF Head(imgs).ok
                   THEN [w1 EXCEPT !.fs = Written(@, img_filename, File("image", <<>>)),
                                   !.dl = @ \cup {img_filename}]
                   ELSE Say(w1, Err.dlimage \o img_url)
           rest == download_images(w2, url, Tail(imgs), k + 1, t)
       IN  [w |-> rest.w,
            paths |-> IF Head(imgs).ok THEN <<img_filename>> \o rest.paths ELSE rest.paths]

\* o.http is the outcome of requests.get(url); o.page is what BeautifulSoup
\* makes of the response: [ok, text, imgs], the text of get_text() and the
\* <img> tags with a src, or the message of the exception.  Returns the pair
\* (article_text, pdf_path).
crawl_and_generate_article(w, url, pdf_filename, include_images, o, t) ==
  LET w1 == Log(Log(w, "crawl_and_generate_article", url), "requests.get", url)
      cleaned_text == Truncated(CleanedText(o.page.text))
      article_text == generate_output(w1, cleaned_text, Kw.task_article, o.gen)
      images == download_images(article_text.w, url, o.page.imgs, 1, t)
      pdf_path == IF include_images
                    THEN create_pdf_with_images(images.w, article_text.ret, pdf_filename, images.paths, o.pdf)
                    ELSE gui_text_to_pdf(article_text.w, article_text.ret, pdf_filename, o.pdf)
  IN  IF ~o.http.ok THEN Ret(<<Some(Err.website \o o.http.text), None>>, w1)
      ELSE IF ~o.page.ok THEN Ret(<<Some(Err.parse \o o.page.text), None>>, w1)
      ELSE Ret(<<Some(article_text.ret), Some(pdf_path.ret)>>, pdf_path.w)

\* transcribe_audio_gui looking at the URL before the upload
transcribe_audio_gui_url_first(w, file, url, format_choice, o, t) ==
  IF url # <<>>
    THEN IF blocked_host(url)
           THEN Ret(Msg.unsupported, w)
           ELSE LET file_path == get_audio(w, url, format_choice, o.info, t)
                IN  transcribe_audio(file_path.w, file_path.ret, o.tr)
  ELSE IF file.some
    THEN transcribe_audio(w, file.name, o.tr)
  ELSE Ret(Msg.no_audio, w)

\* file is [some, name]: the uploaded file, or None
transcribe_audio_gui(w, file, url, format_choice, o, t) ==
  IF file.some
    THEN transcribe_audio(w, file.name, o.tr)
  ELSE IF url # <<>>
    THEN IF blocked_host(url)
           THEN Ret(Msg.unsupported, w)
           ELSE LET file_path == get_audio(w, url, format_choice, o.info, t)
                IN  transcribe_audio(file_path.w, file_path.ret, o.tr)
  ELSE Ret(Msg.no_audio, w)

\* generate_lyrics_gui and generate_article_gui differ in the task only
audio_to_pdf_gui(w, task, file, url, format_choice, pdf_filename, o, t) ==
  LET transcript == transcribe_audio_gui(w, file, url, format_choice, o, t)
      text == generate_output(transcript.w, transcript.ret, task, o.gen)
      pdf_path == gui_text_to_pdf(text.w, text.ret, pdf_filename, o.pdf)
  IN  IF startswith(transcript.ret, Kw.Error) \/ transcript.ret = Msg.no_audio
        THEN Ret(<<Some(transcript.ret), None>>, transcript.w)
        ELSE Ret(<<Some(text.ret), Some(pdf_path.ret)>>, pdf_path.w)

generate_lyrics_gui(w, file, url, format_choice, pdf_filename, o, t) ==
  audio_to_pdf_gui(w, Kw.task_lyrics, file, url, format_choice, pdf_filename, o, t)

generate_article_gui(w, file, url, format_choice, pdf_filename, o, t) ==
  audio_to_pdf_gui(w, Kw.task_article, file, url, format_choice, pdf_filename, o, t)

get_audio_gui(w, url, format_choice, o, t) ==
  IF blocked_host(url) THEN Ret(Msg.unsupported, w)
  ELSE get_audio(w, url, format_choice, o.info, t)

\* file.read().decode("utf-8") gives the text of an uploaded text file and
\* raises for any other upload; nothing in the handler catches that
summarize_text_gui(w, file, url, pdf_filename, o) ==
  LET export(w0, text) ==
        LET summary == generate_output(w0, text, Kw.task_summarize, o.gen)
            pdf_path == gui_text_to_pdf(summary.w, summary.ret, pdf_filename, o.pdf)
        IN  Ret(<<Some(summary.ret), Some(pdf_path.ret)>>, pdf_path.w)
  IN  IF file.some
        THEN IF exists(w.fs, file.name) /\ w.fs[file.name].kind = "text"
               THEN export(w, w.fs[file.name].pages[1].body)
               ELSE Raise(w)
      ELSE IF url # <<>>
        THEN LET w1 == Log(w, "requests.get", url)
             IN  IF o.http.ok THEN export(w1, o.http.text)
                 ELSE Ret(<<Some(Err.dltext \o o.http.text), None>>, w1)
      ELSE Ret(<<Some(Msg.no_text), None>>, w)

\* uploaded_images is the list of the uploaded images as Gradio hands them
\* over (type="binary": bytes, no paths)
crawl_article_gui(w, crawl_url, pdf_filename, include_images_choice, uploaded_images, o, t) ==
  LET include_images == lower(include_images_choice) = Kw.yes
      crawled == crawl_and_generate_article(w, crawl_url, pdf_filename, include_images, o, t)
      article_text == crawled.ret[1]
      pdf_path == create_pdf_with_images(crawled.w, article_text.v, pdf_filename, uploaded_images, o.pdf2)
  IN  IF uploaded_images # <<>>
        THEN Ret(<<article_text, Some(pdf_path.ret)>>, pdf_path.w)
        ELSE crawled

(***************************************************************************)
(* The GUI: each click runs one handler on the inputs of its tab.          *)
(***************************************************************************)
\* the file input of a tab: an upload, or None
Upload(name) == [some |-> TRUE, name |-> name]
NoUpload == [some |-> FALSE, name |-> <<>>]

\* the outcomes of the services one handler run may consult: pdf is FPDF's
\* outcome in crawl_and_generate_article or text_to_pdf, pdf2 its outcome
\* in the create_pdf_with_images of crawl_article_gui
GuiOracle(info, tr, gen, pdf, http, page, pdf2) ==
  [info |-> info, tr |-> tr, gen |-> gen, pdf |-> pdf, http |-> http, page |-> page, pdf2 |-> pdf2]

\* what BeautifulSoup makes of a fetched page
Parsed(text, imgs) == [ok |-> TRUE, text |-> text, imgs |-> imgs]
Unparsed(text) == [ok |-> FALSE, text |-> text, imgs |-> <<>>]
Img(src, ok) == [src |-> src, ok |-> ok]

GoodPage == Parsed(<<" ","n","e","w","s"," ","\n","\n"," ","a","t"," ","t","e","n","\n">>, <<>>)
PageSamples ==
  { GoodPage,
    Parsed(<<"n","e","w","s">>, <<Img(<<"/","a",".","j","p","g">>, TRUE)>>),
    Parsed(<<"n","e","w","s">>, <<Img(<<"h","t","t","p",":","/","/","c","d","n","/","b">>, FALSE),
                                  Img(<<"/","a",".","j","p","g">>, TRUE),
                                  Img(<<"/","c",".","j","p","g">>, TRUE)>>),
    Unparsed(<<"b","a","d"," ","m","a","r","k","u","p">>) }

GoodHttp == Ok(<<>>)
GoodGui == GuiOracle(GoodInfo, Good, Good, Good, GoodHttp, GoodPage, Good)

Formats == {Kw.mp3, Kw.wav}

\* the inputs of the audio tabs: [file, url, fmt, o]
AudioInput(file, url, fmt, o) == [file |-> file, url |-> url, fmt |-> fmt, o |-> o]

\* outcome pairs (generation, export) in which at most one is not the good one
Pairs(G, P) == {<<g, Good>> : g \in G} \cup {<<Good, p>> : p \in P}

\* the inputs tried on an audio tab: an upload with and without a URL
\* beside it, each sampled URL alone, and nothing at all
AudioInputs(T, GP) ==
       { AudioInput(Upload(UploadedAudio), <<>>, Kw.mp3,
                    [GoodGui EXCEPT !.tr = t, !.gen = gp[1], !.pdf = gp[2]]) : t \in T, gp \in GP }
  \cup { AudioInput(Upload(UploadedAudio), YouTubeUrl, Kw.mp3, GoodGui) }
  \cup { AudioInput(NoUpload, u, Kw.mp3, GoodGui) : u \in (Urls \ {PlainUrl}) \cup {<<>>} }
  \cup { AudioInput(NoUpload, PlainUrl, Kw.mp3, [GoodGui EXCEPT !.info = i, !.tr = t]) :
           i \in Infos, t \in T }
  \cup { AudioInput(NoUpload, PlainUrl, Kw.wav, GoodGui) }

\* the values of the tab's inputs, as the prompts of a command are kept
AudioAsked(in) ==
  << [q |-> "file", a |-> in.file.name], [q |-> "url", a |-> in.url], [q |-> "fmt", a |-> in.fmt],
     [q |-> "transcript", a |-> IF in.o.tr.ok THEN in.o.tr.text ELSE <<>>],
     [q |-> "transcription_error", a |-> IF in.o.tr.ok THEN <<>> ELSE in.o.tr.text] >>

\* a handler that returns one string
One(r) == [r EXCEPT !.ret = <<Some(@)>>]

Effect(name, inputs, r) ==
  /\ state = "awaiting_command"
  /\ requests < MaxRequests
  /\ requests' = requests + 1
  /\ handler' = name
  /\ asked' = inputs
  /\ calls' = r.w.calls
  /\ printed' = r.w.out
  /\ downloaded' = r.w.dl
  /\ fs' = r.w.fs
  /\ returned' = r.ret
  /\ escaped' = r.raised
  /\ UNCHANGED <<state, now, user_input, outcomes, visible, api_key>>

Run(name, inputs, r) == Effect(name, inputs, r) /\ UNCHANGED <<remembered, history>>

ClickTranscribe ==
  \E in \in AudioInputs(Transcripts, {<<Good, Good>>}) :
    Run("transcribe_audio_gui", AudioAsked(in),
        One(transcribe_audio_gui(World, in.file, in.url, in.fmt, in.o, now)))

ClickLyrics ==
  \E in \in AudioInputs(Transcripts, Pairs(Completions, Renderings)) :
    Run("generate_lyrics_gui", AudioAsked(in),
        generate_lyrics_gui(World, in.file, in.url, in.fmt, PdfName, in.o, now))

ClickArticle ==
  \E in \in AudioInputs(Transcripts, {<<Good, Good>>}) :
    Run("generate_article_gui", AudioAsked(in),
        generate_article_gui(World, in.file, in.url, in.fmt, PdfName, in.o, now))

\* the inputs tried on the download tab: [url, fmt, info]
GetAudioInputs ==
       { [url |-> PlainUrl, fmt |-> f, info |-> i] : f \in Formats, i \in Infos }
  \cup { [url |-> u, fmt |-> Kw.mp3, info |-> GoodInfo] : u \in (Urls \ {PlainUrl}) \cup {<<>>} }

ClickGetAudio ==
  \E in \in GetAudioInputs :
    Run("get_audio_gui", << [q |-> "url", a |-> in.url], [q |-> "fmt", a |-> in.fmt] >>,
        One(get_audio_gui(World, in.url, in.fmt, [GoodGui EXCEPT !.info = in.info], now)))

\* the service outcomes tried on the crawl tab: one of them off the good run
CrawlRuns ==
       { [GoodGui EXCEPT !.http = h] : h \in Pages }
  \cup { [GoodGui EXCEPT !.page = s] : s \in PageSamples }
  \cup { [GoodGui EXCEPT !.gen = g] : g \in Completions }
  \cup { [GoodGui EXCEPT !.pdf = r] : r \in Renderings }

\* the inputs tried on the crawl tab: [yn, ups, o]
CrawlInputs ==
       { [yn |-> yn, ups |-> <<>>, o |-> o] : yn \in {<<"Y","e","s">>, <<"N","o">>}, o \in CrawlRuns }
  \cup { [yn |-> <<"N","o">>, ups |-> <<<<"b","y","t","e","s">>>>, o |-> [o EXCEPT !.pdf2 = r]] :
           o \in { [GoodGui EXCEPT !.http = h] : h \in Pages }, r \in Renderings }

ClickCrawlArticle ==
  \E in \in CrawlInputs :
    Run("crawl_article_gui",
        << [q |-> "url", a |-> PlainUrl], [q |-> "include_images", a |-> in.yn],
           [q |-> "page", a |-> in.o.page.text],
           [q |-> "http_error", a |-> IF in.o.http.ok THEN <<>> ELSE in.o.http.text],
           [q |-> "parse_error", a |-> IF in.o.page.ok THEN <<>> ELSE in.o.page.text],
           [q |-> "uploaded", a |-> IF in.ups = <<>> THEN <<>> ELSE in.ups[1]] >>,
        crawl_article_gui(World, PlainUrl, PdfName, in.yn, in.ups, in.o, now))

\* the inputs tried on the summary tab: [file, url, o]
SummarizeInputs ==
       { [file |-> Upload(UserText), url |-> u, o |-> GoodGui] : u \in {<<>>, PlainUrl, YouTubeUrl} }
  \cup { [file |-> Upload(UploadedAudio), url |-> PlainUrl, o |-> GoodGui] }
  \cup { [file |-> NoUpload, url |-> PlainUrl, o |-> [GoodGui EXCEPT !.http = h]] : h \in Pages }
  \cup { [file |-> NoUpload, url |-> <<>>, o |-> GoodGui] }

ClickSummarize ==
  \E in \in SummarizeInputs :
    Run("summarize_text_gui", << [q |-> "file", a |-> in.file.name], [q |-> "url", a |-> in.url] >>,
        summarize_text_gui(World, in.file, in.url, PdfName, in.o))

NextGUI ==
  \/ Tick
  \/ ClickSummarize
  \/ ClickTranscribe
  \/ ClickLyrics
  \/ ClickArticle
  \/ ClickGetAudio
  \/ ClickCrawlArticle

SpecGUI == Init /\ [][NextGUI]_vars

\* the commands and handlers that chain several components.  A process runs
\* main.py or gui.py: commands are read only while no GUI handler has run,
\* and handlers run only while no line has been read.
NextPipelines ==
  \/ Tick
  \/ requests = 0 /\ CmdLyrics
  \/ requests = 0 /\ CmdArticle
  \/ requests = 0 /\ CmdGetAudio
  \/ user_input = <<>> /\ ClickLyrics
  \/ user_input = <<>> /\ ClickArticle

SpecPipelines == Init /\ [][NextPipelines]_vars

(***************************************************************************)
(* The component functions called on their own, as any caller may.        *)
(***************************************************************************)
\* how the external call of a component ended, kept with the arguments
ServiceOk == <<"o","k">>
ServiceFailed == <<"f","a","i","l","e","d">>
Service(o) ==
  << [q |-> "service", a |-> IF o.ok THEN ServiceOk ELSE ServiceFailed],
     [q |-> "exception", a |-> IF o.ok THEN <<>> ELSE o.text] >>

Arg(q, a) == <<[q |-> q, a |-> a]>>

\* texts and labels handed to the components; LongText is longer than any template
LongText == Rep("a", MaxPageChars + 2)
Tasks == {Kw.task_lyrics, Kw.task_article, Kw.task_summarize, <<"h","a","i","k","u">>}
ShortText == <<" ","l","a"," ","l","a"," ","\n">>
Title == <<"S","u","n">>
\* the calls of transcribe_audio tried: [path, o]
TranscribeCalls ==
       { [path |-> UserAudio, o |-> o] : o \in Transcripts }
  \cup { [path |-> p, o |-> Good] : p \in {UploadedAudio, NoFile, UserDir} }
  \cup { [path |-> NoFile, o |-> o] : o \in {t \in Transcripts : ~t.ok} }

CallTranscribeAudio ==
  \E c \in TranscribeCalls :
    Run("transcribe_audio", Arg("path", c.path) \o Service(c.o),
        One(transcribe_audio(World, c.path, c.o)))

\* the calls of generate_output tried: [text, task, o]
OutputCalls ==
       { [text |-> ShortText, task |-> k, o |-> o] : k \in Tasks, o \in Completions }
  \cup { [text |-> <<>>, task |-> k, o |-> Good] : k \in Tasks }

CallGenerateOutput ==
  \E c \in OutputCalls :
    Run("generate_output", Arg("text", c.text) \o Arg("task", c.task) \o Service(c.o),
        One(generate_output(World, c.text, c.task, c.o)))

CallGeneratePressRelease ==
  \E o \in Completions :
    Run("generate_press_release", Arg("title", Title) \o Service(o),
        One(generate_press_release(World, Title, <<"A","v","a">>, <<"2","0","2","5">>, <<"n","e","w">>, o)))

CallGenerateSocialMediaPost ==
  \E o \in Completions :
    Run("generate_social_media_post", Arg("title", Title) \o Service(o),
        One(generate_social_media_post(World, Title, <<"A","v","a">>, o)))

CallGenerateEpk ==
  \E o \in Completions :
    Run("generate_epk", Arg("artist", Title) \o Service(o),
        One(generate_epk(World, Title, <<"b","i","o">>, <<>>, <<"@","a">>, <<>>, o)))

CallChatWithApi ==
  \E o \in Completions :
    Run("chat_with_api", Arg("message", ShortText) \o Service(o),
        One(chat_with_api(World, ShortText, o)))

CallGetAudio ==
  \E in \in {i \in GetAudioInputs : i.url \in {PlainUrl, YouTubeUrl}} :
    Run("get_audio", Arg("url", in.url) \o Arg("fmt", in.fmt) \o Service(in.info),
        One(get_audio(World, in.url, in.fmt, in.info, now)))

CallMainTextToPdf ==
  \E o \in Renderings :
    Run("main.text_to_pdf", Arg("text", ShortText) \o Arg("pdf", PdfName) \o Service(o),
        One(main_text_to_pdf(World, ShortText, PdfName, o)))

CallGuiTextToPdf ==
  \E o \in Renderings :
    Run("gui.text_to_pdf", Arg("text", ShortText) \o Arg("pdf", PdfName) \o Service(o),
        One(gui_text_to_pdf(World, ShortText, PdfName, o)))

\* the lists of image paths the exporters are given
ImageLists ==
  { <<>>, <<UserPhoto>>, <<UserPhoto, UserLogo>>, <<UserLogo, NoFile, UserPhoto>>,
    <<UserText, UserLogo>>, <<UserPhoto, MissingPhoto, UserLogo>> }

CallCreatePdfWithImages ==
  \E images \in ImageLists, o \in Renderings :
    Run("create_pdf_with_images",
        Arg("text", ShortText) \o Arg("pdf", PdfName) \o Arg("images", images) \o Service(o),
        One(create_pdf_with_images(World, ShortText, PdfName, images, o)))

CallCreateEpkPdf ==
  \E photos \in ImageLists, o \in Renderings :
    Run("create_epk_pdf",
        Arg("text", ShortText) \o Arg("pdf", PdfName) \o Arg("images", photos) \o Service(o),
        One(create_epk_pdf(World, ShortText, PdfName, photos, o)))

NextComponents ==
  \/ Tick
  \/ CallTranscribeAudio
  \/ CallGenerateOutput
  \/ CallGeneratePressRelease
  \/ CallGenerateSocialMediaPost
  \/ CallGenerateEpk
  \/ CallChatWithApi
  \/ CallGetAudio
  \/ CallMainTextToPdf
  \/ CallGuiTextToPdf
  \/ CallCreatePdfWithImages
  \/ CallCreateEpkPdf

SpecComponents == Init /\ [][NextComponents]_vars

(***************************************************************************)
(* The prompt generate_output sends, for texts of any length, called on    *)
(* its own and from crawl_and_generate_article.                            *)
(***************************************************************************)
\* the calls of generate_output tried: [text, task, o]
PromptCalls ==
       { [text |-> x, task |-> k, o |-> Good] : x \in {ShortText, <<>>}, k \in Tasks }
  \cup { [text |-> LongText, task |-> k, o |-> Good] : k \in {Kw.task_summarize, <<"h","a","i","k","u">>} }
  \cup { [text |-> ShortText, task |-> Kw.task_lyrics, o |-> o] : o \in Completions }

\* the first (task, text, prompt) generate_output was called with
Remember(task, text, r) ==
  IF remembered = <<>>
    THEN <<[task |-> task, text |-> text, prompt |-> r.w.calls[Len(r.w.calls)].arg]>>
    ELSE remembered

SendPrompt ==
  \E c \in PromptCalls :
    LET r == generate_output(World, c.text, c.task, c.o)
    IN  /\ Effect("generate_output", Arg("text", c.text) \o Arg("task", c.task) \o Service(c.o), One(r))
        /\ remembered' = Remember(c.task, c.text, r)
        /\ UNCHANGED history

\* the page texts tried
CrawledTexts ==
  { GoodPage.text,
    <<>>,
    <<" "," ">> \o Rep("a", MaxPageChars - 1) \o <<" ","\n"," ","\n">>,
    Rep("a", MaxPageChars) \o <<" ">>,
    <<" ">> \o Rep("a", MaxPageChars - 3) \o <<"\n"," ","\n">> \o Rep("b", 8),
    Rep("a", MaxPageChars + 1) }

\* the calls of crawl_and_generate_article tried: [text, o]
CrawlCalls ==
       { [text |-> x, o |-> Good] : x \in CrawledTexts }
  \cup { [text |-> GoodPage.text, o |-> o] : o \in Completions }

CrawlPage ==
  \E c \in CrawlCalls :
    Run("crawl_and_generate_article",
        Arg("url", PlainUrl) \o Arg("page", c.text) \o Service(c.o),
        crawl_and_generate_article(World, PlainUrl, PdfName, FALSE,
                                   [GoodGui EXCEPT !.gen = c.o, !.page = Parsed(c.text, <<>>)], now))

\* neither call reads the clock
NextPrompts ==
  \/ SendPrompt
  \/ CrawlPage

SpecPrompts == Init /\ [][NextPrompts]_vars

(***************************************************************************)
(* gui.py: the chat panel.  A message content is a Python str or a list of *)
(* parts; both are written as one record, so that the two can be told      *)
(* apart: [type, text, parts].                                             *)
(***************************************************************************)
Str(text) == [type |-> "str", text |-> text, parts |-> <<>>]
List(parts) == [type |-> "list", text |-> <<>>, parts |-> parts]
Part(type, text, url) == [type |-> type, text |-> text, url |-> url]

\* the image input: None, the bytes of the upload, or a dict with "data"
\* and "name"
NoImage == [none |-> TRUE, dict |-> FALSE, name |-> <<>>, data |-> <<>>]
Bytes(data) == [none |-> FALSE, dict |-> FALSE, name |-> <<>>, data |-> data]
Dict(name, data) == [none |-> FALSE, dict |-> TRUE, name |-> name, data |-> data]

B64Alphabet ==
  <<
    "A","B","C","D","E","F","G","H","I","J","K","L","M","N","O","P","Q","R","S","T","U","V","W",
    "X","Y","Z","a","b","c","d","e","f","g","h","i","j","k","l","m","n","o","p","q","r","s","t",
    "u","v","w","x","y","z","0","1","2","3","4","5","6","7","8","9","+","/"
  >>

\* base64.b64encode(bs).decode("utf-8"); a byte is a number in 0..255
RECURSIVE b64encode(_)
b64encode(bs) ==
  LET C(n) == B64Alphabet[n + 1]
  IN  IF bs = <<>> THEN <<>>
      ELSE IF Len(bs) = 1
        THEN <<C(bs[1] \div 4), C((bs[1] % 4) * 16), "=", "=">>
      ELSE IF Len(bs) = 2
        THEN <<C(bs[1] \div 4), C((bs[1] % 4) * 16 + bs[2] \div 16), C((bs[2] % 16) * 4), "=">>
      ELSE <<C(bs[1] \div 4), C((bs[1] % 4) * 16 + bs[2] \div 16),
             C((bs[2] % 16) * 4 + bs[3] \div 64), C(bs[3] % 64)>>
             \o b64encode(SubSeq(bs, 4, Len(bs)))

\* mimetypes.guess_type(file_name)[0], or the default of line 511 when it
\* knows no type for the name
mime_type(file_name) ==
  LET ext == lower(splitext(file_name).ext)
  IN  IF ext = <<".","p","n","g">> THEN Kw.image_png
      ELSE IF ext \in {<<".","j","p","g">>, <<".","j","p","e","g">>} THEN Kw.image_jpeg
      ELSE Kw.octet_stream

\* lines 502-516: what is sent, and stored, as the content of the user's message
message_content(message, image) ==
  LET file_name == IF image.dict THEN image.name ELSE Kw.uploaded_image
      image_str == Kw.data_scheme \o mime_type(file_name) \o Kw.base64_mark \o b64encode(image.data)
  IN  IF image.none THEN Str(message)
      ELSE List(<<Part("text", message, <<>>), Part("image_url", <<>>, image_str)>>)

Record(role, content) == [role |-> role, content |-> content]

\* send_chat keeping only the exchange of this call
send_chat_forgetful(w, message, image, history_, o) ==
  LET content == message_content(message, image)
      w1 == Log(w, "openai.ChatCompletion.create", content)
      reply == IF o.ok THEN strip(o.text) ELSE Err.chat \o o.text
  IN  [ret |-> <<Some(<<>>)>>, raised |-> FALSE, w |-> w1,
       history |-> <<Record("user", content), Record("assistant", Str(reply))>>]

\* send_chat(message, image, history): returns ("", history); the history is
\* given apart from ret
send_chat(w, message, image, history_, o) ==
  LET content == message_content(message, image)
      w1 == Log(w, "openai.ChatCompletion.create", content)
      reply == IF o.ok THEN strip(o.text) ELSE Err.chat \o o.text
  IN  [ret |-> <<Some(<<>>)>>, raised |-> FALSE, w |-> w1,
       history |-> history_ \o <<Record("user", content), Record("assistant", Str(reply))>>]

\* what is typed and uploaded in the chat tab; the upload widget hands over
\* the bytes of the file
Messages == {<<"h","i">>, <<>>}
Images == {NoImage, Bytes(<<137, 80, 78, 71>>), Dict(UserPhoto, <<255, 216>>)}

ClickSendChat ==
  \E message \in Messages, image \in Images, o \in Completions :
    LET r == send_chat(World, message, image, history, o)
    IN  /\ Effect("send_chat", Arg("message", message) \o Arg("image", image) \o Service(o), r)
        /\ history' = r.history
        /\ UNCHANGED remembered

NextChat ==
  \/ ClickSendChat

\* the chat panel of the GUI
SpecChat == Init /\ [][NextChat]_vars

(***************************************************************************)
(* gui.py: the function dropdown                                           *)
(***************************************************************************)
\* the choices of the dropdown
Choices ==
  { "Chat", "Transcribe Audio", "Generate Lyrics (PDF)", "Generate Article (PDF)",
    "Summarize Text (PDF)", "Get Audio", "Press Release (PDF)", "Social Media Post",
    "Generate EPK (PDF)", "Generate Website Article (PDF)", "Get Web Images" }

\* update_function_view with the label of the crawl tab as it was before "(PDF)" was added
update_function_view_stale_label(choice) ==
  << choice = "Chat", choice = "Transcribe Audio", choice = "Generate Lyrics (PDF)",
     choice = "Generate Article (PDF)", choice = "Summarize Text (PDF)", choice = "Get Audio",
     choice = "Press Release (PDF)", choice = "Social Media Post", choice = "Generate EPK (PDF)",
     choice = "Generate Website Article", choice = "Get Web Images" >>

\* the tuple of gr.update(visible=...) it returns, as the tuple of the flags
update_function_view(choice) ==
  << choice = "Chat", choice = "Transcribe Audio", choice = "Generate Lyrics (PDF)",
     choice = "Generate Article (PDF)", choice = "Summarize Text (PDF)", choice = "Get Audio",
     choice = "Press Release (PDF)", choice = "Social Media Post", choice = "Generate EPK (PDF)",
     choice = "Generate Website Article (PDF)", choice = "Get Web Images" >>

\* function_choice.change: the i-th update goes to the i-th group of the outputs
ChangeFunction ==
  /\ state = "awaiting_command"
  /\ \E choice \in Choices :
       /\ handler' = "update_function_view"
       /\ asked' = <<[q |-> "choice", a |-> choice]>>
       /\ visible' = update_function_view(choice)
  /\ calls' = <<>>
  /\ printed' = <<>>
  /\ downloaded' = {}
  /\ returned' = <<>>
  /\ escaped' = FALSE
  /\ UNCHANGED <<state, now, fs, user_input, requests, remembered, outcomes, history, api_key>>

NextView ==
  \/ ChangeFunction
  \/ ClickSendChat

\* the dropdown, with the chat tab in use between the changes
SpecView == Init /\ [][NextView]_vars

(***************************************************************************)
(* Properties                                                              *)
(***************************************************************************)
\* the commands of main() that take an audio source
AudioCommands == {"transcribe", "lyrics", "article", "getaudio"}

\* the ways the sampled lines spell an exit keyword, once stripped
ExitWords == {<<"e","x","i","t">>, <<"Q","u","i","t">>, <<"E","X","I","T">>}

\* the answer given at prompt q in the last command, <<>> if it was not asked
Answer(q) ==
  IF \E i \in 1..Len(asked) : asked[i].q = q
    THEN asked[CHOOSE i \in 1..Len(asked) : asked[i].q = q].a
    ELSE <<>>

\* the operations the last command or handler called, in order
Ops == [i \in 1..Len(calls) |-> calls[i].op]

Called(op) == \E i \in 1..Len(calls) : calls[i].op = op

\* C1: the loop of main() ends exactly when the stripped line, lower-cased,
\* is "exit" or "quit"; such a line calls no component, asks nothing and
\* downloads nothing; no other line ends the loop.
C1_ExitOnlyByKeyword ==
  /\ state # "awaiting_command" <=> user_input \in ExitWords
  /\ user_input \in ExitWords =>
       calls = <<>> /\ asked = <<>> /\ downloaded = {} /\ printed = <<Msg.goodbye>>

\* C2: every command execution ends back in awaiting_command, whatever the
\* components return and whatever is typed at the sub-prompts.
C2_AlwaysBackToAwaiting ==
  handler \notin {"none", "exit"} => state = "awaiting_command"

\* the first prompt of each command, and the component calls it may make
FirstPrompt ==
  [transcribe |-> "mode", lyrics |-> "mode", article |-> "mode", summarize |-> "choice",
   getaudio |-> "fmt", pressrelease |-> "title", social |-> "title", epk |-> "artist",
   chat |-> "message"]

Generator ==
  [transcribe |-> "none", lyrics |-> "generate_output", article |-> "generate_output",
   summarize |-> "generate_output", getaudio |-> "generate_output",
   pressrelease |-> "generate_press_release", social |-> "generate_social_media_post",
   epk |-> "generate_epk", chat |-> "chat_with_api"]

Generators ==
  {"generate_output", "generate_press_release", "generate_social_media_post", "generate_epk",
   "chat_with_api"}

Prefixes ==
  [transcribe |-> Kw.transcribe, lyrics |-> Kw.lyrics, article |-> Kw.article,
   summarize |-> Kw.summarize, getaudio |-> Kw.getaudio, pressrelease |-> Kw.pressrelease,
   social |-> Kw.social, epk |-> Kw.epk, chat |-> Kw.chat]

C6_UserFilesKept ==
  [][\A i \in 1..Len(asked') :
       (handler' \in AudioCommands /\ asked'[i].q = "path" /\ CanOpen(fs, asked'[i].a)) =>
          (exists(fs', asked'[i].a) /\ fs'[asked'[i].a] = fs[asked'[i].a])]_vars

\* the GUI handlers that download into the downloads directory
GuiDownloaders ==
  {"transcribe_audio_gui", "generate_lyrics_gui", "generate_article_gui", "crawl_article_gui"}

\* C5: once a GUI handler has returned, no audio file and no image it
\* downloaded into the downloads directory is left on disk.
C5_GuiDownloadsDeleted ==
  handler \in GuiDownloaders => \A p \in downloaded : ~exists(fs, p)

\* the sampled URLs that name youtube.com or youtu.be, in some letter case
BlockedUrls == {YouTubeUrl, ShortYouTubeUrl, UpperYouTubeUrl}

\* C7: for a URL naming youtube.com or youtu.be in any letter case,
\* transcribe_audio_gui without an upload and get_audio_gui return the
\* unsupported-source message and call neither get_audio nor the
\* transcription service.
C7_YouTubeRejected ==
  ( /\ handler \in {"transcribe_audio_gui", "get_audio_gui"}
    /\ Answer("url") \in BlockedUrls
    /\ (handler = "transcribe_audio_gui" => Answer("file") = <<>>) )
  => ( /\ returned = <<Some(Msg.unsupported)>>
       /\ ~Called("get_audio") /\ ~Called("yt_dlp.extract_info")
       /\ ~Called("transcribe_audio") /\ ~Called("openai.Audio.transcribe")
       /\ downloaded = {} )

\* C7 witness: get_audio_gui turned down a URL spelled in capitals
C7_Witness ==
  /\ handler = "get_audio_gui"
  /\ Answer("url") = UpperYouTubeUrl
  /\ returned = <<Some(Msg.unsupported)>>

\* the component functions of main.py and gui.py
ComponentFunctions ==
  {"transcribe_audio", "generate_output", "generate_press_release",
   "generate_social_media_post", "generate_epk", "chat_with_api", "get_audio",
   "main.text_to_pdf", "gui.text_to_pdf"}

\* the external call of the last component call was made and failed
ExternalCallFailed ==
  /\ Answer("service") = ServiceFailed
  /\ handler = "transcribe_audio" => Called("openai.Audio.transcribe")

\* C8: a component function never raises; when its external call fails (or
\* the audio file cannot be opened) it returns a string that starts with
\* "Error" and carries the message of the failure.
C8_ErrorsReturnedNotRaised ==
  handler \in ComponentFunctions =>
    /\ ~escaped
    /\ Len(returned) = 1 /\ ~returned[1].none
    /\ ExternalCallFailed =>
         startswith(returned[1].v, Kw.Error) /\ contains(returned[1].v, Answer("exception"))
    /\ (handler = "transcribe_audio" /\ ~CanOpen(fs, Answer("path"))) =>
         startswith(returned[1].v, Err.transcription)

\* C8 witness: the completion of generate_epk failed and the error string
\* came back
C8_Witness ==
  /\ handler = "generate_epk"
  /\ Answer("service") = ServiceFailed
  /\ ~escaped
  /\ returned = <<Some(Err.epk \o Answer("exception"))>>

\* C9: in /lyrics, /article and /getaudio, a transcript that is empty or an
\* error string of transcribe_audio is never handed to generate_output.
C9_FailedTranscriptUnused ==
  handler \in {"lyrics", "article", "getaudio"} =>
    \A i \in 1..Len(calls) :
      calls[i].op = "generate_output" =>
        calls[i].arg # <<>> /\ ~startswith(calls[i].arg, Err.transcription)

\* the argument of the last call of op
ArgOf(op) == calls[CHOOSE i \in 1..Len(calls) : calls[i].op = op].arg

\* C10: the prompt generate_output sends contains the text it was given,
\* whole, and is the same whenever label and text are the same; on the
\* crawled-page path the text given is the first min(length, 10000)
\* characters of the cleaned page text.
C10_PromptEmbedsText ==
  /\ handler = "generate_output" =>
       /\ ArgOf("generate_output") = Answer("text")
       /\ contains(ArgOf("openai.ChatCompletion.create"), Answer("text"))
       /\ ( /\ remembered # <<>>
            /\ remembered[1].task = Answer("task")
            /\ remembered[1].text = Answer("text") )
          => ArgOf("openai.ChatCompletion.create") = remembered[1].prompt
  /\ handler = "crawl_and_generate_article" =>
       /\ ArgOf("generate_output") = prefix(CleanedText(Answer("page")), 10000)
       /\ Len(ArgOf("generate_output")) <= 10000
       /\ contains(ArgOf("openai.ChatCompletion.create"), ArgOf("generate_output"))

\* C10 witness: a page whose cleaned text is longer than 10,000 characters
\* was crawled and its article asked for
C10_Witness ==
  /\ handler = "crawl_and_generate_article"
  /\ Len(CleanedText(Answer("page"))) > 10000
  /\ Called("openai.ChatCompletion.create")

Exporters == {"main.text_to_pdf", "gui.text_to_pdf"}

\* C11: a call of text_to_pdf whose page layout and file write work returns
\* the output filename it was given and leaves a document at that filename;
\* the same call made again returns the same path and leaves the document,
\* and every other file, as the first call left it.
C11_ExportIdempotent ==
  [][ ( /\ handler' \in Exporters
        /\ Answer("service")' = ServiceOk )
      => /\ returned' = <<Some(Answer("pdf")')>>
         /\ exists(fs', Answer("pdf")')
         /\ (handler = handler' /\ asked = asked') => (fs' = fs /\ returned' = returned) ]_vars

\* C12: a download made by get_audio writes a file path at which no file
\* was before, whatever was downloaded earlier and however close in time:
\* no download overwrites the file of another.
C12_DownloadPathsDistinct ==
  [][ (handler' = "get_audio" /\ downloaded' # {})
      => \A p \in downloaded' : ~exists(fs, p) ]_vars

\* C13: when /pressrelease has run with the generation service (and the
\* PDF library) working, a document holding the generated text is on disk
\* at the filename typed at the prompt, no exception has left the loop and
\* the dispatcher is awaiting the next command.
C13_PressReleaseLeavesDocument ==
  (handler = "pressrelease" /\ outcomes.gen.ok /\ outcomes.pdf.ok)
    => /\ exists(fs, Answer("pdf"))
       /\ fs[Answer("pdf")] = File("pdf", <<[kind |-> "text", body |-> strip(outcomes.gen.text)]>>)
       /\ ~escaped
       /\ state = "awaiting_command"

Asked(q) == \E i \in 1..Len(asked) : asked[i].q = q

\* /summarize has just run with URL input and the fetch failed
FetchFailed == handler = "summarize" /\ Answer("choice") = Kw.two /\ ~outcomes.http.ok

\* C14: a /summarize with URL input whose fetch fails prints the download
\* error and nothing else, calls no generation, asks for no output
\* filename, leaves the disk as it was, and the dispatcher awaits the next
\* command.
C14_FailedFetchStopsSummarize ==
  [][ FetchFailed'
      => /\ printed' = <<Err.dltext \o outcomes'.http.text>>
         /\ Ops' = <<"requests.get">>
         /\ ~Asked("pdf")'
         /\ fs' = fs
         /\ ~escaped'
         /\ state' = "awaiting_command" ]_vars

C14_Witness == FetchFailed /\ Called("requests.get") /\ Answer("url") = PlainUrl

ImageExporters == {"create_pdf_with_images", "create_epk_pdf"}

\* the document an exporter has just written at the filename it was given
Exported == fs[Answer("pdf")].pages

\* the page holds the image img and no other image
HoldsOnly(page, img) ==
  \/ page = Page("image", img)
  \/ page = Page("photos", <<Page("image", img)>>)

\* C15: an exporter that was given a text and n image paths, every one an
\* image file, and returned its output path has written a document of
\* 1 + n pages: the text on page 1 and the i-th image, alone, on page i + 1.
C15_OneImagePerPage ==
  ( /\ handler \in ImageExporters
    /\ returned = <<Some(Answer("pdf"))>>
    /\ \A i \in 1..Len(Answer("images")) : Embeddable(fs, Answer("images")[i]) )
  => /\ Len(Exported) = 1 + Len(Answer("images"))
     /\ Exported[1] = Page("text", Answer("text"))
     /\ \A i \in 1..Len(Answer("images")) : HoldsOnly(Exported[i + 1], Answer("images")[i])

\* the entries the document holds for the images, in order: a page each in
\* create_pdf_with_images, the lines of the photo page in create_epk_pdf
ImageEntries ==
  IF handler = "create_epk_pdf"
    THEN (IF Len(Exported) > 1 THEN Exported[2].body ELSE <<>>)
    ELSE Tail(Exported)

\* C16: when the text page and the output file can be written, the exporter
\* returns the output path and the document has an entry for every image
\* given, embedded or not; when they cannot, it returns an error text and
\* not the output path.
C16_ImageFailureDoesNotAbort ==
  handler \in ImageExporters
  => /\ Answer("service") = ServiceOk
        => /\ returned = <<Some(Answer("pdf"))>>
           /\ Len(ImageEntries) = Len(Answer("images"))
           /\ \A i \in 1..Len(Answer("images")) : ImageEntries[i].body = Answer("images")[i]
     /\ Answer("service") = ServiceFailed
        => /\ returned # <<Some(Answer("pdf"))>>
           /\ startswith(returned[1].v, Kw.Error)

Roles == {"user", "assistant"}

\* the content is the message, or a list whose text part is the message
Carries(content, message) ==
  IF content.type = "str" THEN content.text = message
  ELSE content.parts[1] = Part("text", message, <<>>)

\* C17: every send_chat leaves the history it was given, unchanged, followed
\* by two new records: the user's, carrying the message, then the
\* assistant's, which carries the error text when the completion failed.
C17_HistoryAppendOnly ==
  [][ handler' = "send_chat"
      => LET n == Len(history)
         IN  /\ Len(history') = n + 2
             /\ SubSeq(history', 1, n) = history
             /\ history'[n + 1].role = "user"
             /\ Carries(history'[n + 1].content, Answer("message")')
             /\ history'[n + 2].role = "assistant"
             /\ Answer("service")' = ServiceFailed
                  => history'[n + 2].content = Str(Err.chat \o Answer("exception")') ]_vars

C17_Witness ==
  /\ handler = "send_chat"
  /\ Len(history) = 4
  /\ history[1].content = Str(<<"h","i">>)
  /\ history[2].content = Str(Err.chat \o <<"r","a","t","e"," ","l","i","m","i","t">>)
  /\ history[3].content.type = "list"

\* C18: every record of the history has the role user or assistant and a
\* content that is a plain string, also after a message sent with an image.
C18_ContentIsString ==
  \A i \in 1..Len(history) :
    /\ history[i].role \in Roles
    /\ history[i].content.type = "str"

KeyMissing == api_key.none \/ api_key.v = <<>>

\* C19: with OPENAI_API_KEY missing the process stops with the configuration
\* error before a command is read or a service called; the process is
\* stopped by an error in no other case.
C19_OnlyMissingKeyStops ==
  /\ KeyMissing => /\ state \in {"starting", "config_error"}
                   /\ user_input = <<>> /\ asked = <<>> /\ calls = <<>>
  /\ state = "config_error" => KeyMissing
  /\ state # "crashed"

Pipelines == {"lyrics", "article", "getaudio", "generate_lyrics_gui", "generate_article_gui"}

\* the stage a call belongs to: download, transcription, generation, export
StageOf ==
  [op \in {"get_audio", "yt_dlp.extract_info"} |-> 1]
    @@ [op \in {"transcribe_audio", "openai.Audio.transcribe"} |-> 2]
    @@ [op \in {"generate_output", "openai.ChatCompletion.create"} |-> 3]
    @@ [op \in {"text_to_pdf"} |-> 4]

\* C20: the calls of one pipeline command follow the order download,
\* transcription, generation, export, and none is issued twice.
C20_StagesInOrderOnce ==
  handler \in Pipelines
  => /\ \A i \in 1..Len(calls) : calls[i].op \in DOMAIN StageOf
     /\ \A i, j \in 1..Len(calls) :
          i < j => /\ StageOf[calls[i].op] <= StageOf[calls[j].op]
                   /\ calls[i].op # calls[j].op

C20_Witness ==
  /\ handler = "lyrics"
  /\ Ops = <<"get_audio", "yt_dlp.extract_info", "transcribe_audio", "openai.Audio.transcribe",
             "generate_output", "openai.ChatCompletion.create", "text_to_pdf">>
  /\ ~outcomes.gen.ok

\* C21: a line that starts with /crawl runs crawl_and_generate_article and a
\* line that starts with /webimages runs crawl_images_gui; neither line is
\* handed to chat_with_api.
C21_CrawlCommandsDispatched ==
  /\ startswith(user_input, <<"/","c","r","a","w","l">>)
       => Called("crawl_and_generate_article") /\ ~Called("chat_with_api")
  /\ startswith(user_input, <<"/","w","e","b","i","m","a","g","e","s">>)
       => Called("crawl_images_gui") /\ ~Called("chat_with_api")

ExportCommands == {"lyrics", "article", "summarize", "pressrelease", "getaudio"}

\* C22: when an exporting command has printed "PDF successfully saved as
\* <path>", <path> is the filename typed at the prompt and a document is on
\* disk at that filename.
C22_SavedMessageOnlyAfterExport ==
  handler \in ExportCommands
  => \A i \in 1..Len(printed) :
       startswith(printed[i], Msg.pdf_saved)
       => /\ printed[i] = Msg.pdf_saved \o Answer("pdf")
          /\ exists(fs, Answer("pdf"))
          /\ fs[Answer("pdf")].kind = "pdf"

AudioToPdfHandlers == {"generate_lyrics_gui", "generate_article_gui"}

\* C23: generate_lyrics_gui and generate_article_gui, given no upload and a
\* URL naming youtube.com or youtu.be, return the unsupported-source message
\* with no document path, call no generation and no export.
C23_BlockedUrlStopsGeneration ==
  ( /\ handler \in AudioToPdfHandlers
    /\ Answer("file") = <<>>
    /\ Answer("url") \in BlockedUrls )
  => /\ returned = <<Some(Msg.unsupported), None>>
     /\ ~Called("generate_output") /\ ~Called("openai.ChatCompletion.create")
     /\ ~Called("text_to_pdf")

\* C24: crawl_article_gui, when the page could not be retrieved or parsed,
\* returns the error text with no document path and writes no PDF, with or
\* without uploaded images.
C24_FailedCrawlWritesNothing ==
  [][ ( /\ handler' = "crawl_article_gui"
        /\ (Answer("http_error")' # <<>> \/ Answer("parse_error")' # <<>>) )
      => /\ returned'[2] = None
         /\ startswith(returned'[1].v, Kw.Error)
         /\ fs' = fs ]_vars

\* C25: when /getaudio has printed "Audio file available at: <path>", the
\* file at <path> is on disk once the command is over, and the dispatcher
\* awaits the next command.
C25_AnnouncedFileKept ==
  handler = "getaudio"
  => \A i \in 1..Len(printed) :
       startswith(printed[i], Msg.available)
       => /\ exists(fs, SubSeq(printed[i], Len(Msg.available) + 1, Len(printed[i])))
          /\ state = "awaiting_command"

\* the group that holds the inputs of a choice
GroupOf ==
  [c \in Choices |->
     CASE c = "Chat" -> "chat_group"
       [] c = "Transcribe Audio" -> "transcribe_group"
       [] c = "Generate Lyrics (PDF)" -> "lyrics_group"
       [] c = "Generate Article (PDF)" -> "article_group"
       [] c = "Summarize Text (PDF)" -> "summarize_group"
       [] c = "Get Audio" -> "getaudio_group"
       [] c = "Press Release (PDF)" -> "pressrelease_group"
       [] c = "Social Media Post" -> "social_group"
       [] c = "Generate EPK (PDF)" -> "epk_group"
       [] c = "Generate Website Article (PDF)" -> "crawl_group"
       [] c = "Get Web Images" -> "images_group"]

Shown == {Groups[i] : i \in {j \in 1..Len(Groups) : visible[j]}}

\* C26: exactly one group is visible at any time, and after a change of the
\* dropdown it is the group of the choice made.
C26_OneGroupVisible ==
  /\ Cardinality(Shown) = 1
  /\ handler = "update_function_view" => Shown = {GroupOf[Answer("choice")]}

C26_Witness ==
  /\ handler = "send_chat"
  /\ Shown = {"crawl_group"}
  /\ Len(history) = 2

FileOrUrlHandlers ==
  {"transcribe_audio_gui", "generate_lyrics_gui", "generate_article_gui", "summarize_text_gui"}

\* the calls that download or fetch from the URL field
UrlCalls == {"get_audio", "yt_dlp.extract_info", "requests.get"}

\* C27: with an upload, a handler that takes a file and a URL makes no
\* download and no fetch and does not turn a blocked URL down; without one
\* it uses the URL, if any (downloads or fetches it, unless the audio tabs
\* turn it down as blocked); with neither it returns "No audio provided." or
\* "No text provided." and calls nothing.
C27_FileBeforeUrl ==
  handler \in FileOrUrlHandlers
  => /\ Answer("file") # <<>>
        => /\ \A i \in 1..Len(calls) : calls[i].op \notin UrlCalls
           /\ returned # <<>> => returned[1] # Some(Msg.unsupported)
           /\ handler # "summarize_text_gui" => ArgOf("transcribe_audio") = Answer("file")
     /\ (Answer("file") = <<>> /\ Answer("url") # <<>>)
        => IF Answer("url") \in BlockedUrls /\ handler # "summarize_text_gui"
             THEN \A i \in 1..Len(calls) : calls[i].op \notin UrlCalls
             ELSE \E i \in 1..Len(calls) : calls[i].op \in UrlCalls /\ calls[i].arg = Answer("url")
     /\ (Answer("file") = <<>> /\ Answer("url") = <<>>)
        => /\ calls = <<>>
           /\ returned[1] = Some(IF handler = "summarize_text_gui" THEN Msg.no_text ELSE Msg.no_audio)

C27_Witness ==
  /\ handler = "generate_lyrics_gui"
  /\ Answer("file") = UploadedAudio
  /\ Answer("url") = YouTubeUrl
  /\ Called("text_to_pdf")

\* C28: generate_lyrics_gui and generate_article_gui, once the transcription
\* service has returned a transcript, go on to generation and export
\* whatever the transcript says.
C28_EveryTranscriptProcessed ==
  ( /\ handler \in AudioToPdfHandlers
    /\ Called("openai.Audio.transcribe")
    /\ Answer("transcription_error") = <<>> )
  => /\ Called("generate_output")
     /\ Called("text_to_pdf")
     /\ returned[2] # None

=============================================================================
